---- MODULE Spec2Model ----
(***************************************************************************)
(* helm-release-pruner: the release-selection and cycle-execution engine   *)
(* of pkg/pruner/pruner.go, with the start-up validation of               *)
(* cmd/pruner/main.go (PreRunE).                                           *)
(*                                                                         *)
(* Time is counted in whole units (one unit of age); the backoff is        *)
(* counted in whole seconds.  A compiled regular expression is the pattern *)
(* string it was compiled from; NilRegex is the nil *regexp.Regexp.        *)
(***************************************************************************)
EXTENDS Integers, Sequences, FiniteSets, TLC

VARIABLES
    flags,                \* the raw command-line flags of newRootCmd
    opts,                 \* pruner.Options, as PreRunE fills it
    systemNamespaces,     \* Pruner.systemNamespaces
    releases,             \* the cluster: Helm releases (all statuses)
    namespaces,           \* the cluster: namespaces that exist
    now,                  \* the clock read by time.Now()
    tick,                 \* a tick waits in the channel ticker.C (capacity 1)
    ctxDone,              \* the context passed to RunDaemon is cancelled
    pc,                   \* position of the daemon goroutine
    listed,               \* pruneReleases: releases (the list taken)
    candidates,           \* pruneReleases: candidates (after filterReleases)
    sorted,               \* selectReleasesToDelete: sorted (after sort.Slice)
    toDelete,             \* pruneReleases: toDelete
    idx,                  \* loop index i of the running delete loop
    affectedNamespaces,   \* pruneReleases: affectedNamespaces (map keys)
    nsTodo,               \* keys of affectedNamespaces not yet ranged over
    nsItems,              \* cleanupOrphanNamespaces: namespaces.Items not yet scanned
    orphanNamespaces,     \* cleanupOrphanNamespaces: orphanNamespaces
    err,                  \* the error RunOnce returns
    backoff,              \* runCycleWithBackoff: backoff
    ready,                \* Pruner.ready
    initialized,          \* Pruner.initialized
    consecutiveFailures,  \* Pruner.consecutiveFailures
    pruneCycleFailuresTotal, \* the helm_pruner_cycle_failures_total counter
    namespace,            \* deleteNamespaceIfEmpty: namespace
    cycles,               \* number of prune cycles started
    faults,               \* cluster calls that have failed, counted up to MaxFaults
    calls,                \* history: the mutating calls the cluster received
    intents,              \* history: the "would delete" lines logged
    justDeleted,          \* history: a delete was issued in this cycle and no
                          \* rate-limit wait has elapsed since
    parsed,               \* what the last parseDuration call returned
    toDeleteAgain,        \* what a second selectReleasesToDelete call returned
    readyz                \* the last answer of the /readyz handler

vars == << flags, opts, systemNamespaces, releases, namespaces, now, tick, ctxDone, pc,
           listed, candidates, sorted, toDelete, idx, affectedNamespaces, nsTodo,
           nsItems, orphanNamespaces, err, backoff, ready, initialized,
           consecutiveFailures, pruneCycleFailuresTotal, namespace, cycles, faults,
           calls, intents, justDeleted, parsed, toDeleteAgain,
           readyz >>

-----------------------------------------------------------------------------
(* Bounds of the model *)

MaxReleases == 3        \* releases in one list
MaxTime == 2            \* last-deployed times are 0..MaxTime
MaxKeep == 3            \* --max-releases-to-keep is 0..MaxKeep
MaxAge == 2             \* --older-than is 0..MaxAge
MaxFailureArg == 70     \* CalculateBackoff is applied to -MaxFailureArg..MaxFailureArg

-----------------------------------------------------------------------------
(* The names of the model's cluster *)

ReleaseNames == {"web", "api"}
NamespaceNames == {"default", "dev", "mon"}
AllNames == ReleaseNames \cup NamespaceNames

\* (name, namespace) identifies a release; a release is unique within its namespace.
ReleaseIds ==
    << [name |-> "web", namespace |-> "dev"],
       [name |-> "api", namespace |-> "dev"],
       [name |-> "web", namespace |-> "mon"],
       [name |-> "api", namespace |-> "default"] >>

Release(id, t) ==
    [name |-> id.name, namespace |-> id.namespace, lastDeployed |-> t]

Range(s) == {s[i] : i \in 1..Len(s)}

\* The orderings of a finite set as sequences (Go's randomized map iteration
\* visits the keys of a map in any order).
Orderings(S) ==
    {s \in [1..Cardinality(S) -> S] : Range(s) = S}

\* The sub-lists of ReleaseIds from index i with at most n entries, in the order of
\* ReleaseIds, each entry with a last-deployed time of the set times.
RECURSIVE ReleaseLists(_, _, _)
ReleaseLists(i, n, times) ==
    IF i > Len(ReleaseIds) \/ n = 0
    THEN {<< >>}
    ELSE ReleaseLists(i + 1, n, times)
         \cup {<<Release(ReleaseIds[i], t)>> \o rest :
                 t \in times, rest \in ReleaseLists(i + 1, n - 1, times)}

-----------------------------------------------------------------------------
(* Regular expressions *)

NilRegex == "<nil>"

\* The strings of the model's cluster that regexp.MatchString accepts for a pattern.
Lang(pattern) ==
    CASE pattern = ".*" -> AllNames
      [] pattern = "^web$" -> {"web"}
      [] pattern = "^api$" -> {"api"}
      [] pattern = "^dev$" -> {"dev"}
      [] pattern = "^mon$" -> {"mon"}
      [] pattern = "^d" -> {"default", "dev"}
      [] OTHER -> {}

MatchString(re, s) == s \in Lang(re)

-----------------------------------------------------------------------------
(* Options *)

\* The zero value of pruner.Options.
ZeroOptions ==
    [ MaxReleasesToKeep |-> 0,
      OlderThan |-> 0,
      ReleaseFilter |-> NilRegex,
      NamespaceFilter |-> NilRegex,
      ReleaseExclude |-> NilRegex,
      NamespaceExclude |-> NilRegex,
      PreserveNamespace |-> FALSE,
      CleanupOrphanNamespaces |-> FALSE,
      OrphanNamespaceFilter |-> NilRegex,
      OrphanNamespaceExclude |-> NilRegex,
      DeleteRateLimit |-> 0,
      AdditionalSystemNamespaces |-> {},
      DryRun |-> FALSE ]

-----------------------------------------------------------------------------
(* filterReleases *)

\* One pass of the loop body of filterReleases: TRUE iff rel is appended.
FilterKeepsBadExclude(o, rel) ==
    IF o.NamespaceFilter # NilRegex /\ ~MatchString(o.NamespaceFilter, rel.namespace)
    THEN FALSE
    ELSE IF o.NamespaceExclude # NilRegex /\ MatchString(o.NamespaceExclude, rel.namespace)
    THEN FALSE
    ELSE IF o.ReleaseFilter # NilRegex /\ ~MatchString(o.ReleaseFilter, rel.name)
    THEN FALSE
    ELSE IF o.ReleaseExclude # NilRegex /\ ~MatchString(o.ReleaseExclude, rel.name)
    THEN FALSE
    ELSE TRUE

FilterKeeps(o, rel) ==
    IF o.NamespaceFilter # NilRegex /\ ~MatchString(o.NamespaceFilter, rel.namespace)
    THEN FALSE
    ELSE IF o.NamespaceExclude # NilRegex /\ MatchString(o.NamespaceExclude, rel.namespace)
    THEN FALSE
    ELSE IF o.ReleaseFilter # NilRegex /\ ~MatchString(o.ReleaseFilter, rel.name)
    THEN FALSE
    ELSE IF o.ReleaseExclude # NilRegex /\ MatchString(o.ReleaseExclude, rel.name)
    THEN FALSE
    ELSE TRUE

RECURSIVE FilterFrom(_, _, _)
FilterFrom(o, rels, i) ==
    IF i > Len(rels)
    THEN << >>
    ELSE IF FilterKeeps(o, rels[i])
         THEN <<rels[i]>> \o FilterFrom(o, rels, i + 1)
         ELSE FilterFrom(o, rels, i + 1)

\* The filter with the releases of the default system namespaces left out.
filterReleasesSkipsSystem(o, rels) ==
    FilterFrom(o, SelectSeq(rels, LAMBDA r : r.namespace \notin {"default", "kube-system"}), 1)

\* The list handed on as it came, no filter applied.
filterReleasesPassesAll(o, rels) == rels

filterReleases(o, rels) == FilterFrom(o, rels, 1)

-----------------------------------------------------------------------------
(* selectReleasesToDelete *)

\* sort.Slice with less(i, j) = sorted[i].LastDeployed.After(sorted[j].LastDeployed):
\* the sort is not stable, so every arrangement of rels with the last-deployed
\* times in descending order is a possible result.
SortSlice(rels) ==
    {s \in Orderings(Range(rels)) :
        \A i, j \in 1..Len(s) : i < j => s[i].lastDeployed >= s[j].lastDeployed}

\* The loop of the count rule: sorted[MaxReleasesToKeep:] is marked.
CountMarkedOffByOne(o, srt) ==
    IF o.MaxReleasesToKeep > 0 /\ Len(srt) > o.MaxReleasesToKeep
    THEN {srt[i] : i \in (o.MaxReleasesToKeep + 2)..Len(srt)}
    ELSE {}

CountMarked(o, srt) ==
    IF o.MaxReleasesToKeep > 0 /\ Len(srt) > o.MaxReleasesToKeep
    THEN {srt[i] : i \in (o.MaxReleasesToKeep + 1)..Len(srt)}
    ELSE {}

\* The test of the age rule: age > OlderThan.
ExceedsAgeInclusive(o, rel, t) == t - rel.lastDeployed >= o.OlderThan

ExceedsAge(o, rel, t) == t - rel.lastDeployed > o.OlderThan

\* The loop of the age rule over releases from index i, with toDeleteMap = marked.
RECURSIVE AgeLoopStops(_, _, _, _, _)
AgeLoopStops(o, rels, i, marked, t) ==
    IF i > Len(rels)
    THEN marked
    ELSE IF rels[i] \in marked
         THEN marked
         ELSE IF ExceedsAge(o, rels[i], t)
              THEN AgeLoopStops(o, rels, i + 1, marked \cup {rels[i]}, t)
              ELSE AgeLoopStops(o, rels, i + 1, marked, t)

RECURSIVE AgeLoop(_, _, _, _, _)
AgeLoop(o, rels, i, marked, t) ==
    IF i > Len(rels)
    THEN marked
    ELSE IF rels[i] \in marked
         THEN AgeLoop(o, rels, i + 1, marked, t)
         ELSE IF ExceedsAge(o, rels[i], t)
              THEN AgeLoop(o, rels, i + 1, marked \cup {rels[i]}, t)
              ELSE AgeLoop(o, rels, i + 1, marked, t)

\* The K newest exempt from the age rule: with both rules only releases beyond
\* the keep count are looked at.
ToDeleteMapKeepsNewest(o, rels, srt, t) ==
    IF Len(rels) = 0
    THEN {}
    ELSE IF o.OlderThan > 0
         THEN IF o.MaxReleasesToKeep > 0
              THEN {r \in CountMarked(o, srt) : ExceedsAge(o, r, t)}
              ELSE AgeLoop(o, rels, 1, {}, t)
         ELSE CountMarked(o, srt)

\* The age rule applied without its "p.opts.OlderThan > 0" condition.
ToDeleteMapAgeAlways(o, rels, srt, t) ==
    IF Len(rels) = 0
    THEN {}
    ELSE AgeLoop(o, rels, 1, CountMarked(o, srt), t)

\* The keys of toDeleteMap when selectReleasesToDelete returns, for the result
\* srt of its sort.Slice call and the time t of its time.Now() call.
ToDeleteMap(o, rels, srt, t) ==
    IF Len(rels) = 0
    THEN {}
    ELSE IF o.OlderThan > 0
         THEN AgeLoop(o, rels, 1, CountMarked(o, srt), t)
         ELSE CountMarked(o, srt)

\* The slice selectReleasesToDelete returns: the keys in map-iteration order.
selectReleasesToDelete(o, rels, srt, t) == Orderings(ToDeleteMap(o, rels, srt, t))

-----------------------------------------------------------------------------
(* CalculateBackoff *)

maxBackoff == 300           \* 5 * time.Minute, in seconds
maxBackoffShift == 10

\* A duration above every backoff the model compares with, and a negative one.
HugeSeconds == 1073741824
NegativeSeconds == -1

\* Bit b of 1953125 (time.Second = 1e9 ns = 2^9 * 1953125).
SecondBit(b) == ((1953125 \div (2 ^ b)) % 2) = 1

\* time.Duration(1<<uint(shift)) * time.Second for shift >= 0, in seconds.  The
\* product is taken in 64-bit nanoseconds: exact up to shift 33, wrapped around
\* from shift 34 (negative iff bit 63 of 1953125 * 2^(shift+9) is set), and zero
\* from shift 55 (and 1<<shift itself is zero from shift 64).
ShiftSeconds(shift) ==
    IF shift <= 30 THEN 2 ^ shift
    ELSE IF shift <= 33 THEN HugeSeconds
    ELSE IF shift <= 54
         THEN IF SecondBit(54 - shift) THEN NegativeSeconds ELSE HugeSeconds
         ELSE 0

\* shift := consecutiveFailures - 1, capped at maxBackoffShift.
CapShiftNone(n) == n - 1

CapShift(n) == IF n - 1 > maxBackoffShift THEN maxBackoffShift ELSE n - 1

CalculateBackoff(n) ==
    IF n <= 1
    THEN 0
    ELSE IF ShiftSeconds(CapShift(n)) > maxBackoff
         THEN maxBackoff
         ELSE ShiftSeconds(CapShift(n))

-----------------------------------------------------------------------------
(* Start-up: newRootCmd.PreRunE and pruner.New *)

\* Patterns regexp.Compile rejects.
InvalidPatterns == {"("}

\* The text of --older-than is the sequence of its characters, the empty sequence
\* when the flag is not given.  One unit of time is one hour, and a result is
\* [ok, d, wraps]: the duration d hours less wraps times 2^64 nanoseconds, which is
\* d hours unless the int64 arithmetic has wrapped.
DecimalDigits == {"0", "1", "2", "3", "4", "5", "6", "7", "8", "9"}

DigitValue(c) ==
    CASE c = "0" -> 0 [] c = "1" -> 1 [] c = "2" -> 2 [] c = "3" -> 3 [] c = "4" -> 4
      [] c = "5" -> 5 [] c = "6" -> 6 [] c = "7" -> 7 [] c = "8" -> 8 [] c = "9" -> 9

\* The number of leading characters of text that are digits / that are not.
RECURSIVE LeadingDigits(_)
LeadingDigits(text) ==
    IF text = << >> \/ Head(text) \notin DecimalDigits
    THEN 0
    ELSE 1 + LeadingDigits(Tail(text))

RECURSIVE LeadingUnit(_)
LeadingUnit(text) ==
    IF text = << >> \/ Head(text) \in DecimalDigits
    THEN 0
    ELSE 1 + LeadingUnit(Tail(text))

\* The number a run of digits reads as in base 10.
RECURSIVE DecimalValue(_)
DecimalValue(digits) ==
    IF digits = << >>
    THEN 0
    ELSE DecimalValue(SubSeq(digits, 1, Len(digits) - 1)) * 10
         + DigitValue(digits[Len(digits)])

DurationError == [ok |-> FALSE, d |-> 0, wraps |-> 0]

\* The longest time.Duration in hours: (1<<63 - 1) nanoseconds are 2562047.788 h.
MaxDurationHours == 2562047

\* The largest count of hours that int64 nanoseconds hold after wrapping m times:
\* (2m + 1) * 2^63 nanoseconds, rounded down to the hour.
DurationBound(m) == (2 * m + 1) * MaxDurationHours + ((2 * m + 1) * 788) \div 1000

RECURSIVE WrapsFrom(_, _)
WrapsFrom(n, m) == IF n <= DurationBound(m) THEN m ELSE WrapsFrom(n, m + 1)

\* time.Duration(value) * hours * time.Hour in int64 arithmetic, which wraps.
Hours(n) == [ok |-> TRUE, d |-> n, wraps |-> WrapsFrom(n, 0)]

\* unitMap of package time, for the units the texts of the model can spell.
unitMap(u) == IF u = <<"h">> THEN 1 ELSE 0

\* The loop of time.ParseDuration over the text s, with d hours read so far: a run
\* of digits, then a unit up to the next digit; each product and each sum is
\* checked against the int64 range.
RECURSIVE ParseDurationLoop(_, _)
ParseDurationLoop(s, d) ==
    IF s = << >>
    THEN [ok |-> TRUE, d |-> d, wraps |-> 0]
    ELSE LET n == LeadingDigits(s)
             v == DecimalValue(SubSeq(s, 1, n))
             rest == SubSeq(s, n + 1, Len(s))
             i == LeadingUnit(rest)
             unit == unitMap(SubSeq(rest, 1, i))
         IN  IF n = 0 \/ i = 0 \/ unit = 0
             THEN DurationError
             ELSE IF v > MaxDurationHours \div unit \/ d + v * unit > MaxDurationHours
                  THEN DurationError
                  ELSE ParseDurationLoop(SubSeq(rest, i + 1, Len(rest)), d + v * unit)

\* time.ParseDuration(s) for a text without sign and fraction.
timeParseDuration(s) ==
    IF s = <<"0">> THEN [ok |-> TRUE, d |-> 0, wraps |-> 0]
    ELSE IF s = << >> THEN DurationError
    ELSE ParseDurationLoop(s, 0)

\* fmt.Sscanf(valueStr, "%d", &value): the leading digits are read and what
\* follows them is left unread; no leading digit is an error.
Sscanf(valueStr) ==
    LET n == LeadingDigits(valueStr)
    IN  [ok |-> n > 0, value |-> DecimalValue(SubSeq(valueStr, 1, n))]

parseDuration(s) ==
    IF timeParseDuration(s).ok
    THEN timeParseDuration(s)
    ELSE IF Len(s) < 2
         THEN DurationError
         ELSE LET unit == s[Len(s)]
                  scanned == Sscanf(SubSeq(s, 1, Len(s) - 1))
              IN  IF ~scanned.ok THEN DurationError
                  ELSE IF unit = "d" THEN Hours(scanned.value * 24)
                  ELSE IF unit = "w" THEN Hours(scanned.value * 7 * 24)
                  ELSE DurationError

\* strings.Split(additionalSystemNamespaces, ",") with each part trimmed.
SplitTrimmed(text) ==
    CASE text = "" -> {}
      [] text = "mon" -> {"mon"}
      [] text = "mon, dev" -> {"mon", "dev"}
      [] OTHER -> {text}

\* A flag holding a pattern: the compiled pattern, or nil when the flag is empty.
Compiled(pattern) == IF pattern = "" THEN NilRegex ELSE pattern

\* The flag values PreRunE fails to parse.
ParseFails(f) ==
    \/ f.olderThan # << >> /\ ~parseDuration(f.olderThan).ok
    \/ \E pattern \in {f.releaseFilter, f.namespaceFilter, f.releaseExcludeFilter,
                       f.namespaceExclude, f.orphanNamespaceFilter,
                       f.orphanNamespaceExclude} : pattern \in InvalidPatterns

\* PreRunE up to the validation: the flags copied and compiled into opts.
ParsedOptions(f, o) ==
    [ o EXCEPT
        !.DeleteRateLimit = f.deleteRateLimit,
        !.AdditionalSystemNamespaces =
            IF f.additionalSystemNamespaces # ""
            THEN SplitTrimmed(f.additionalSystemNamespaces)
            ELSE o.AdditionalSystemNamespaces,
        !.OlderThan =
            IF f.olderThan # << >> THEN parseDuration(f.olderThan).d ELSE o.OlderThan,
        !.ReleaseFilter = Compiled(f.releaseFilter),
        !.NamespaceFilter = Compiled(f.namespaceFilter),
        !.ReleaseExclude = Compiled(f.releaseExcludeFilter),
        !.NamespaceExclude = Compiled(f.namespaceExclude),
        !.OrphanNamespaceFilter = Compiled(f.orphanNamespaceFilter),
        !.OrphanNamespaceExclude = Compiled(f.orphanNamespaceExclude) ]

\* "Validate orphan namespace cleanup - filter is REQUIRED for safety".
ValidateOrphanCleanupKeeps(o) == o

ValidateOrphanCleanup(o) ==
    IF o.CleanupOrphanNamespaces /\ o.OrphanNamespaceFilter = NilRegex
    THEN [o EXCEPT !.CleanupOrphanNamespaces = FALSE]
    ELSE o

\* PreRunE, "Validate configuration": the local hasReleasePruning.
hasReleasePruningAgeOnly(o) == o.OlderThan > 0

hasReleasePruning(o) ==
    \/ o.OlderThan > 0
    \/ o.MaxReleasesToKeep > 0
    \/ o.ReleaseFilter # NilRegex
    \/ o.NamespaceFilter # NilRegex
    \/ o.ReleaseExclude # NilRegex
    \/ o.NamespaceExclude # NilRegex

\* Pruner.hasReleasePruningFilters, which RunOnce asks.
hasReleasePruningFiltersNoExcludes(o) ==
    \/ o.OlderThan > 0
    \/ o.MaxReleasesToKeep > 0
    \/ o.ReleaseFilter # NilRegex
    \/ o.NamespaceFilter # NilRegex

hasReleasePruningFilters(o) ==
    \/ o.OlderThan > 0
    \/ o.MaxReleasesToKeep > 0
    \/ o.ReleaseFilter # NilRegex
    \/ o.NamespaceFilter # NilRegex
    \/ o.ReleaseExclude # NilRegex
    \/ o.NamespaceExclude # NilRegex

\* PreRunE: the error it returns (TRUE: the process does not start) and opts.
PreRunEResult(f, o) ==
    IF ParseFails(f)
    THEN [failed |-> TRUE, opts |-> o]
    ELSE LET v == ValidateOrphanCleanup(ParsedOptions(f, o))
         IN  [failed |-> ~hasReleasePruning(v) /\ ~v.CleanupOrphanNamespaces,
              opts |-> v]

defaultSystemNamespaces == {"default", "kube-system", "kube-public", "kube-node-lease"}

\* New: the system namespaces map.
NewSystemNamespaces(o) == defaultSystemNamespaces \cup o.AdditionalSystemNamespaces

-----------------------------------------------------------------------------
(* The cluster, as the pruner's calls see it *)

Id(rel) == [name |-> rel.name, namespace |-> rel.namespace]

\* The releases of set rs in the order of ReleaseIds, from index i.
RECURSIVE ListInOrder(_, _)
ListInOrder(rs, i) ==
    IF i > Len(ReleaseIds)
    THEN << >>
    ELSE LET here == {r \in rs : Id(r) = ReleaseIds[i]}
         IN  (IF here = {} THEN << >> ELSE <<CHOOSE r \in here : TRUE>>)
             \o ListInOrder(rs, i + 1)

\* Namespaces().List returns the items in name order.
NamespaceOrder == <<"default", "dev", "mon">>
NamespaceItems(nss) == SelectSeq(NamespaceOrder, LAMBDA n : n \in nss)

\* namespaceHasReleases: len(releases) > 0 for the list of one namespace, all statuses.
namespaceHasReleasesNever(rs, ns) == FALSE

namespaceHasReleases(rs, ns) == \E r \in rs : r.namespace = ns

\* The release named like rel is in the cluster.
Installed(rs, rel) == \E r \in rs : Id(r) = Id(rel)

\* The cluster after helm uninstall of rel, and after the delete of namespace ns
\* (which removes what the namespace holds, its release records included).
Uninstalled(rs, rel) == {r \in rs : Id(r) # Id(rel)}
WithoutNamespace(rs, ns) == {r \in rs : r.namespace # ns}

-----------------------------------------------------------------------------
(* The daemon goroutine *)

MaxCycles == 2          \* prune cycles of one daemon
MaxFaults == 1          \* cluster calls that fail

\* The last-deployed times of the releases in the cluster when the process starts,
\* and the time it starts at: a release is then one or two units old.
ClusterTimes == {0, 1}
StartTime == CHOOSE t \in 1..Cardinality(ClusterTimes) : \A u \in ClusterTimes : u < t

probeVars == << parsed, toDeleteAgain, readyz >>
configVars == << flags, opts, systemNamespaces, probeVars >>
clusterVars == << releases, namespaces >>
pruneLocals == << listed, candidates, toDelete, affectedNamespaces, nsTodo, namespace >>
orphanLocals == << nsItems, orphanNamespaces >>
stateVars == << backoff, ready, initialized, consecutiveFailures,
                pruneCycleFailuresTotal, cycles >>
historyVars == << calls, intents, justDeleted >>

\* The results a cluster call can have: TRUE is success.
Outcomes == IF faults < MaxFaults THEN {TRUE, FALSE} ELSE {TRUE}
Counted(ok) == faults' = IF ok THEN faults ELSE faults + 1

\* "if ctx.Err() != nil": the context is cancelled.
CtxErrNever == FALSE

CtxErr == ctxDone

\* "if p.opts.DryRun": the delete is logged, not made.
IsDryRunNever(o) == FALSE

IsDryRun(o) == o.DryRun

\* RunOnce after pruneReleases returned nil.
ReleasePhaseDone == IF opts.CleanupOrphanNamespaces THEN "listNamespaces" ELSE "cycleResult"

\* pruneReleases returns e; its locals go out of scope.
PruneReturnsGoesOn(e) ==
    /\ err' = e
    /\ pc' = ReleasePhaseDone
    /\ listed' = << >> /\ candidates' = << >> /\ toDelete' = << >>
    /\ affectedNamespaces' = {} /\ nsTodo' = {} /\ namespace' = ""
    /\ idx' = 0

PruneReturns(e) ==
    /\ err' = e
    /\ pc' = IF e = "nil" THEN ReleasePhaseDone ELSE "cycleResult"
    /\ listed' = << >> /\ candidates' = << >> /\ toDelete' = << >>
    /\ affectedNamespaces' = {} /\ nsTodo' = {} /\ namespace' = ""
    /\ idx' = 0

\* cleanupOrphanNamespaces returns e.
OrphanReturns(e) ==
    /\ err' = e
    /\ pc' = "cycleResult"
    /\ nsItems' = << >> /\ orphanNamespaces' = << >>
    /\ idx' = 0

PreRunE ==
    /\ pc = "PreRunE"
    /\ opts' = PreRunEResult(flags, opts).opts
    /\ pc' = IF PreRunEResult(flags, opts).failed THEN "exit" ELSE "New"
    /\ UNCHANGED << flags, probeVars, systemNamespaces, clusterVars, now, tick, ctxDone, pruneLocals,
                    orphanLocals, sorted, idx, err, stateVars, faults, historyVars >>

\* RunE: pruner.New(opts), then RunDaemon, which starts the first cycle at once.
New ==
    /\ pc = "New"
    /\ systemNamespaces' = NewSystemNamespaces(opts)
    /\ pc' = "RunOnce"
    /\ UNCHANGED << flags, probeVars, opts, clusterVars, now, tick, ctxDone, pruneLocals, orphanLocals,
                    sorted, idx, err, stateVars, faults, historyVars >>

\* runCycleWithBackoff calls RunOnce.
RunOnce ==
    /\ pc = "RunOnce"
    /\ cycles' = cycles + 1
    /\ err' = "nil"
    /\ pc' = IF hasReleasePruningFilters(opts) THEN "listAllReleases" ELSE ReleasePhaseDone
    /\ UNCHANGED << configVars, clusterVars, now, tick, ctxDone, pruneLocals, orphanLocals,
                    sorted, idx, backoff, ready, initialized, consecutiveFailures,
                    pruneCycleFailuresTotal, faults, historyVars >>

\* pruneReleases up to its delete loop: listAllReleases, filterReleases,
\* selectReleasesToDelete.
ListAndSelect ==
    /\ pc = "listAllReleases"
    /\ \/ /\ CtxErr
          /\ PruneReturns("canceled")
          /\ UNCHANGED faults
       \/ /\ ~CtxErr
          /\ \E ok \in Outcomes :
               /\ Counted(ok)
               /\ IF ~ok
                  THEN PruneReturns("error")
                  ELSE LET rels == ListInOrder(releases, 1)
                           cands == filterReleases(opts, rels)
                       IN  \E srt \in SortSlice(cands) :
                             \E td \in selectReleasesToDelete(opts, cands, srt, now) :
                               IF Len(td) = 0
                               THEN PruneReturns("nil")
                               ELSE /\ listed' = rels
                                    /\ candidates' = cands
                                    /\ toDelete' = td
                                    /\ idx' = 1
                                    /\ pc' = "deleteReleases"
                                    /\ UNCHANGED << affectedNamespaces, nsTodo,
                                                    namespace, err >>
    /\ UNCHANGED << configVars, clusterVars, now, tick, ctxDone, orphanLocals, sorted,
                    stateVars, historyVars >>

\* The delete loop of pruneReleases goes on after iteration idx, whose release
\* lies in a namespace now among aff.
NextRelease(aff) ==
    IF idx < Len(toDelete)
    THEN /\ idx' = idx + 1
         /\ affectedNamespaces' = aff
         /\ UNCHANGED << pc, err, listed, candidates, toDelete, nsTodo, namespace >>
    ELSE IF opts.PreserveNamespace
         THEN PruneReturns("nil")
         ELSE /\ pc' = "nsQuery"
              /\ affectedNamespaces' = aff
              /\ nsTodo' = aff
              /\ UNCHANGED << idx, err, listed, candidates, toDelete, namespace >>

\* deleteRelease returned an error: it is logged and the loop goes on ("continue").
UninstallFailedAborts(aff) == PruneReturns("error")

UninstallFailed(aff) == NextRelease(aff)

\* One iteration of the delete loop of pruneReleases.
DeleteRelease ==
    /\ pc = "deleteReleases"
    /\ LET rel == toDelete[idx]
           aff == affectedNamespaces \cup {rel.namespace}
       IN  \/ /\ CtxErr
              /\ PruneReturns("canceled")
              /\ UNCHANGED << releases, faults, historyVars >>
           \/ /\ ~CtxErr
              /\ IsDryRun(opts)
              /\ intents' = [intents EXCEPT !.releases = @ \cup {Id(rel)}]
              /\ NextRelease(aff)
              /\ UNCHANGED << releases, faults, calls, justDeleted >>
           \/ /\ ~CtxErr
              /\ ~IsDryRun(opts)
              /\ calls' = [calls EXCEPT !.uninstalls = @ \cup {Id(rel)}]
              /\ justDeleted' = TRUE
              /\ \E ok \in (IF Installed(releases, rel) THEN Outcomes ELSE {FALSE}) :
                   /\ faults' = IF ok \/ ~Installed(releases, rel)
                                THEN faults ELSE faults + 1
                   /\ IF ok
                      THEN /\ releases' = Uninstalled(releases, rel)
                           /\ IF opts.DeleteRateLimit > 0 /\ idx < Len(toDelete)
                              THEN /\ pc' = "rateLimitReleases"
                                   /\ affectedNamespaces' = aff
                                   /\ UNCHANGED << idx, err, listed, candidates,
                                                   toDelete, nsTodo, namespace >>
                              ELSE NextRelease(aff)
                      ELSE /\ UNCHANGED releases
                           /\ UninstallFailed(aff)
              /\ UNCHANGED intents
    /\ UNCHANGED << configVars, namespaces, now, tick, ctxDone, orphanLocals, sorted,
                    stateVars >>

\* The rate-limit select of the release loop: time.After fires.
RateLimitReleasesElapsed ==
    /\ pc = "rateLimitReleases"
    /\ idx' = idx + 1
    /\ justDeleted' = FALSE
    /\ pc' = "deleteReleases"
    /\ UNCHANGED << configVars, clusterVars, now, tick, ctxDone, pruneLocals, orphanLocals,
                    sorted, err, stateVars, faults, calls, intents >>

\* The rate-limit select of the release loop: ctx.Done() is ready.
RateLimitReleasesCancelled ==
    /\ pc = "rateLimitReleases"
    /\ ctxDone
    /\ PruneReturns("canceled")
    /\ UNCHANGED << configVars, clusterVars, now, tick, ctxDone, orphanLocals, sorted,
                    stateVars, faults, historyVars >>

\* The range loop over affectedNamespaces goes on after the namespaces of todo.
NextNamespace(todo) ==
    IF todo = {}
    THEN PruneReturns("nil")
    ELSE /\ nsTodo' = todo
         /\ pc' = "nsQuery"
         /\ namespace' = ""
         /\ UNCHANGED << idx, err, listed, candidates, toDelete, affectedNamespaces >>

\* deleteNamespaceIfEmpty returns before any query: the namespace is protected.
IsSystemNamespaceNever(ns) == FALSE

IsSystemNamespace(ns) == ns \in systemNamespaces

\* One iteration of the range loop over affectedNamespaces: deleteNamespaceIfEmpty
\* up to its Delete call.
NsQuery ==
    /\ pc = "nsQuery"
    /\ \E ns \in nsTodo :
         \/ /\ CtxErr
            /\ PruneReturns("canceled")
            /\ UNCHANGED << faults, intents >>
         \/ /\ ~CtxErr
            /\ IsSystemNamespace(ns)
            /\ NextNamespace(nsTodo \ {ns})
            /\ UNCHANGED << faults, intents >>
         \/ /\ ~CtxErr
            /\ ~IsSystemNamespace(ns)
            /\ \E ok \in Outcomes :
                 /\ Counted(ok)
                 /\ IF ~ok \/ namespaceHasReleases(releases, ns)
                    THEN /\ NextNamespace(nsTodo \ {ns})
                         /\ UNCHANGED intents
                    ELSE IF IsDryRun(opts)
                         THEN /\ intents' = [intents EXCEPT !.emptyNamespaces = @ \cup {ns}]
                              /\ NextNamespace(nsTodo \ {ns})
                         ELSE /\ namespace' = ns
                              /\ nsTodo' = nsTodo \ {ns}
                              /\ pc' = "nsDelete"
                              /\ UNCHANGED << idx, err, listed, candidates, toDelete,
                                              affectedNamespaces, intents >>
    /\ UNCHANGED << configVars, clusterVars, now, tick, ctxDone, orphanLocals, sorted,
                    stateVars, calls, justDeleted >>

\* deleteNamespaceIfEmpty: Namespaces().Delete.  A cancelled context fails the call
\* before it is sent.
NsDelete ==
    /\ pc = "nsDelete"
    /\ \/ /\ ctxDone
          /\ NextNamespace(nsTodo)
          /\ UNCHANGED << clusterVars, faults, calls, justDeleted >>
       \/ /\ ~ctxDone
          /\ calls' = [calls EXCEPT !.emptyNamespaces = @ \cup {namespace}]
          /\ justDeleted' = TRUE
          /\ \E ok \in (IF namespace \in namespaces THEN Outcomes ELSE {FALSE}) :
               /\ faults' = IF ok \/ namespace \notin namespaces
                            THEN faults ELSE faults + 1
               /\ IF ok
                  THEN /\ namespaces' = namespaces \ {namespace}
                       /\ releases' = WithoutNamespace(releases, namespace)
                  ELSE UNCHANGED clusterVars
               /\ NextNamespace(nsTodo)
    /\ UNCHANGED << configVars, now, tick, ctxDone, orphanLocals, sorted, stateVars, intents >>

\* cleanupOrphanNamespaces: Namespaces().List.
ListNamespaces ==
    /\ pc = "listNamespaces"
    /\ \/ /\ CtxErr
          /\ OrphanReturns("canceled")
          /\ UNCHANGED faults
       \/ /\ ~CtxErr
          /\ \E ok \in Outcomes :
               /\ Counted(ok)
               /\ IF ~ok
                  THEN OrphanReturns("error")
                  ELSE IF NamespaceItems(namespaces) = << >>
                       THEN OrphanReturns("nil")
                       ELSE /\ nsItems' = NamespaceItems(namespaces)
                            /\ orphanNamespaces' = << >>
                            /\ pc' = "scanNamespaces"
                            /\ UNCHANGED << idx, err >>
    /\ UNCHANGED << configVars, clusterVars, now, tick, ctxDone, pruneLocals, sorted,
                    stateVars, historyVars >>

\* The first pass skips nsName before it queries the releases of the namespace.
ScanSkipsNoExclude(o, nsName) ==
    \/ nsName \in systemNamespaces
    \/ o.OrphanNamespaceFilter # NilRegex /\ ~MatchString(o.OrphanNamespaceFilter, nsName)

ScanSkips(o, nsName) ==
    \/ nsName \in systemNamespaces
    \/ o.OrphanNamespaceFilter # NilRegex /\ ~MatchString(o.OrphanNamespaceFilter, nsName)
    \/ o.OrphanNamespaceExclude # NilRegex /\ MatchString(o.OrphanNamespaceExclude, nsName)

\* The first pass goes on with the orphans found so far.
NextScan(found) ==
    IF Len(nsItems) > 1
    THEN /\ nsItems' = Tail(nsItems)
         /\ orphanNamespaces' = found
         /\ UNCHANGED << pc, idx, err >>
    ELSE IF found = << >>
         THEN OrphanReturns("nil")
         ELSE /\ nsItems' = << >>
              /\ orphanNamespaces' = found
              /\ idx' = 1
              /\ pc' = "deleteOrphans"
              /\ UNCHANGED err

\* One iteration of the first pass of cleanupOrphanNamespaces.
ScanNamespace ==
    /\ pc = "scanNamespaces"
    /\ LET nsName == Head(nsItems)
       IN  \/ /\ CtxErr
              /\ OrphanReturns("canceled")
              /\ UNCHANGED faults
           \/ /\ ~CtxErr
              /\ ScanSkips(opts, nsName)
              /\ NextScan(orphanNamespaces)
              /\ UNCHANGED faults
           \/ /\ ~CtxErr
              /\ ~ScanSkips(opts, nsName)
              /\ \E ok \in Outcomes :
                   /\ Counted(ok)
                   /\ IF ~ok \/ namespaceHasReleases(releases, nsName)
                      THEN NextScan(orphanNamespaces)
                      ELSE NextScan(Append(orphanNamespaces, nsName))
    /\ UNCHANGED << configVars, clusterVars, now, tick, ctxDone, pruneLocals, sorted,
                    stateVars, historyVars >>

\* The second pass goes on after iteration idx.
NextOrphan ==
    IF idx < Len(orphanNamespaces)
    THEN /\ idx' = idx + 1
         /\ UNCHANGED << pc, err, orphanLocals >>
    ELSE OrphanReturns("nil")

\* One iteration of the second pass of cleanupOrphanNamespaces.
DeleteOrphan ==
    /\ pc = "deleteOrphans"
    /\ LET nsName == orphanNamespaces[idx]
       IN  \/ /\ CtxErr
              /\ OrphanReturns("canceled")
              /\ UNCHANGED << clusterVars, faults, historyVars >>
           \/ /\ ~CtxErr
              /\ IsDryRun(opts)
              /\ intents' = [intents EXCEPT !.orphanNamespaces = @ \cup {nsName}]
              /\ NextOrphan
              /\ UNCHANGED << clusterVars, faults, calls, justDeleted >>
           \/ /\ ~CtxErr
              /\ ~IsDryRun(opts)
              /\ calls' = [calls EXCEPT !.orphanNamespaces = @ \cup {nsName}]
              /\ justDeleted' = TRUE
              /\ \E ok \in (IF nsName \in namespaces THEN Outcomes ELSE {FALSE}) :
                   /\ faults' = IF ok \/ nsName \notin namespaces
                                THEN faults ELSE faults + 1
                   /\ IF ok
                      THEN /\ namespaces' = namespaces \ {nsName}
                           /\ releases' = WithoutNamespace(releases, nsName)
                           /\ IF opts.DeleteRateLimit > 0 /\ idx < Len(orphanNamespaces)
                              THEN /\ pc' = "rateLimitOrphans"
                                   /\ UNCHANGED << idx, err, orphanLocals >>
                              ELSE NextOrphan
                      ELSE /\ UNCHANGED clusterVars
                           /\ NextOrphan
              /\ UNCHANGED intents
    /\ UNCHANGED << configVars, now, tick, ctxDone, pruneLocals, sorted, stateVars >>

\* The rate-limit select of the orphan loop: time.After fires.
RateLimitOrphansElapsed ==
    /\ pc = "rateLimitOrphans"
    /\ idx' = idx + 1
    /\ justDeleted' = FALSE
    /\ pc' = "deleteOrphans"
    /\ UNCHANGED << configVars, clusterVars, now, tick, ctxDone, pruneLocals, orphanLocals,
                    sorted, err, stateVars, faults, calls, intents >>

\* The rate-limit select of the orphan loop: ctx.Done() is ready.
RateLimitOrphansCancelled ==
    /\ pc = "rateLimitOrphans"
    /\ ctxDone
    /\ OrphanReturns("canceled")
    /\ UNCHANGED << configVars, clusterVars, now, tick, ctxDone, pruneLocals, sorted,
                    stateVars, faults, historyVars >>

\* runCycleWithBackoff after RunOnce returned err: the failure branch up to the
\* backoff select, or the success branch up to its return.
CycleResultKeepsCount ==
    /\ pc = "cycleResult"
    /\ justDeleted' = FALSE
    /\ IF err # "nil"
       THEN /\ consecutiveFailures' = consecutiveFailures + 1
            /\ pruneCycleFailuresTotal' = pruneCycleFailuresTotal + 1
            /\ backoff' = CalculateBackoff(consecutiveFailures + 1)
            /\ pc' = IF CalculateBackoff(consecutiveFailures + 1) > 0
                     THEN "backoffSleep" ELSE "cycleReturn"
            /\ UNCHANGED ready
       ELSE /\ consecutiveFailures' = consecutiveFailures
            /\ ready' = TRUE
            /\ pc' = "cycleReturn"
            /\ UNCHANGED << pruneCycleFailuresTotal, backoff >>
    /\ UNCHANGED << configVars, clusterVars, now, tick, ctxDone, pruneLocals, orphanLocals,
                    sorted, idx, err, initialized, cycles, faults, calls, intents >>

CycleResult ==
    /\ pc = "cycleResult"
    /\ justDeleted' = FALSE
    /\ IF err # "nil"
       THEN /\ consecutiveFailures' = consecutiveFailures + 1
            /\ pruneCycleFailuresTotal' = pruneCycleFailuresTotal + 1
            /\ backoff' = CalculateBackoff(consecutiveFailures + 1)
            /\ pc' = IF CalculateBackoff(consecutiveFailures + 1) > 0
                     THEN "backoffSleep" ELSE "cycleReturn"
            /\ UNCHANGED ready
       ELSE /\ consecutiveFailures' = 0
            /\ ready' = TRUE
            /\ pc' = "cycleReturn"
            /\ UNCHANGED << pruneCycleFailuresTotal, backoff >>
    /\ UNCHANGED << configVars, clusterVars, now, tick, ctxDone, pruneLocals, orphanLocals,
                    sorted, idx, err, initialized, cycles, faults, calls, intents >>

\* The backoff select: time.After(backoff) fires.
BackoffElapsed ==
    /\ pc = "backoffSleep"
    /\ pc' = "cycleReturn"
    /\ UNCHANGED << configVars, clusterVars, now, tick, ctxDone, pruneLocals, orphanLocals,
                    sorted, idx, err, stateVars, faults, historyVars >>

\* The backoff select: ctx.Done() is ready.
BackoffWaitsItOut ==
    /\ pc = "backoffSleep"
    /\ ctxDone /\ ~ctxDone
    /\ pc' = "cycleReturn"
    /\ UNCHANGED << configVars, clusterVars, now, tick, ctxDone, pruneLocals, orphanLocals,
                    sorted, idx, err, stateVars, faults, historyVars >>

BackoffCancelled ==
    /\ pc = "backoffSleep"
    /\ ctxDone
    /\ pc' = "cycleReturn"
    /\ UNCHANGED << configVars, clusterVars, now, tick, ctxDone, pruneLocals, orphanLocals,
                    sorted, idx, err, stateVars, faults, historyVars >>

\* runCycleWithBackoff returns: the deferred p.initialized.Store(true) runs.
CycleReturnOnSuccess ==
    /\ pc = "cycleReturn"
    /\ initialized' = (err = "nil")
    /\ backoff' = 0
    /\ pc' = "select"
    /\ UNCHANGED << configVars, clusterVars, now, tick, ctxDone, pruneLocals, orphanLocals,
                    sorted, idx, err, ready, consecutiveFailures,
                    pruneCycleFailuresTotal, cycles, faults, historyVars >>

CycleReturn ==
    /\ pc = "cycleReturn"
    /\ initialized' = TRUE
    /\ backoff' = 0
    /\ pc' = "select"
    /\ UNCHANGED << configVars, clusterVars, now, tick, ctxDone, pruneLocals, orphanLocals,
                    sorted, idx, err, ready, consecutiveFailures,
                    pruneCycleFailuresTotal, cycles, faults, historyVars >>

\* The ticker of RunDaemon, made when the first runCycleWithBackoff has returned and
\* stopped when RunDaemon returns: one interval has passed.  The tick is put into
\* ticker.C, or dropped when one waits there already.  The select of RunDaemon
\* receives a waiting tick before another interval has passed.  No more ticks are
\* counted than n cycles can take.
TickerFiresFromStart(n) ==
    /\ pc \notin {"PreRunE", "New", "exit"}
    /\ pc # "returned"
    /\ pc = "select" => ~tick
    /\ now < StartTime + (n - 1) * flags.interval
    /\ now' = now + flags.interval
    /\ tick' = TRUE
    /\ UNCHANGED << configVars, clusterVars, ctxDone, pc, pruneLocals, orphanLocals,
                    sorted, idx, err, stateVars, faults, historyVars >>

TickerFiresUpTo(n) ==
    /\ initialized
    /\ pc # "returned"
    /\ pc = "select" => ~tick
    /\ now < StartTime + (n - 1) * flags.interval
    /\ now' = now + flags.interval
    /\ tick' = TRUE
    /\ UNCHANGED << configVars, clusterVars, ctxDone, pc, pruneLocals, orphanLocals,
                    sorted, idx, err, stateVars, faults, historyVars >>

TickerFires == TickerFiresUpTo(MaxCycles)

\* The select of RunDaemon receives from ticker.C and starts a cycle, the n-th at most.
DaemonTickAnytime(n) ==
    /\ pc \notin {"PreRunE", "New", "exit", "RunOnce", "returned"}
    /\ tick
    /\ cycles < n
    /\ tick' = FALSE
    /\ pc' = "RunOnce"
    /\ UNCHANGED << configVars, clusterVars, now, ctxDone, pruneLocals, orphanLocals,
                    sorted, idx, err, stateVars, faults, historyVars >>

DaemonTickUpTo(n) ==
    /\ pc = "select"
    /\ tick
    /\ cycles < n
    /\ tick' = FALSE
    /\ pc' = "RunOnce"
    /\ UNCHANGED << configVars, clusterVars, now, ctxDone, pruneLocals, orphanLocals,
                    sorted, idx, err, stateVars, faults, historyVars >>

DaemonTick == DaemonTickUpTo(MaxCycles)

\* RunDaemon gives up at its select when the last cycle has failed.
DaemonDoneAfterFailure ==
    /\ pc = "select"
    /\ ctxDone \/ err # "nil"
    /\ pc' = "returned"
    /\ UNCHANGED << configVars, clusterVars, now, tick, ctxDone, pruneLocals, orphanLocals,
                    sorted, idx, err, stateVars, faults, historyVars >>

\* The select of RunDaemon: ctx.Done() is ready, RunDaemon returns ctx.Err().
DaemonDone ==
    /\ pc = "select"
    /\ ctxDone
    /\ pc' = "returned"
    /\ UNCHANGED << configVars, clusterVars, now, tick, ctxDone, pruneLocals, orphanLocals,
                    sorted, idx, err, stateVars, faults, historyVars >>

\* The signal goroutine of RunE calls cancel().
Cancel ==
    /\ pc \notin {"PreRunE", "New", "exit", "returned"}
    /\ ~ctxDone
    /\ ctxDone' = TRUE
    /\ UNCHANGED << configVars, clusterVars, now, tick, pc, pruneLocals, orphanLocals,
                    sorted, idx, err, stateVars, faults, historyVars >>

-----------------------------------------------------------------------------
(* The daemon: one process, from the parsed command line to the return of RunDaemon *)

MaxFlagsSet == 2            \* flags given on the command line
MaxClusterReleases == 2     \* releases in the cluster when the process starts

\* The command line with no flag given: the defaults of newRootCmd.
DefaultFlags ==
    [ interval |-> 1,
      deleteRateLimit |-> 1,
      maxReleasesToKeep |-> 0,
      olderThan |-> << >>,
      releaseFilter |-> "",
      namespaceFilter |-> "",
      releaseExcludeFilter |-> "",
      namespaceExclude |-> "",
      preserveNamespace |-> FALSE,
      cleanupOrphanNamespaces |-> FALSE,
      orphanNamespaceFilter |-> "",
      orphanNamespaceExclude |-> "",
      additionalSystemNamespaces |-> "",
      dryRun |-> FALSE ]

\* The values the model gives each flag.
FlagValues ==
    [ interval : {1},
      deleteRateLimit : {0, 1},
      maxReleasesToKeep : {0, 1},
      olderThan : {<< >>, <<"1", "h">>},
      releaseFilter : {"", "^web$"},
      namespaceFilter : {"", "^d"},
      releaseExcludeFilter : {"", "^api$"},
      namespaceExclude : {"", "^mon$"},
      preserveNamespace : BOOLEAN,
      cleanupOrphanNamespaces : BOOLEAN,
      orphanNamespaceFilter : {"", ".*", "^d"},
      orphanNamespaceExclude : {"", "^dev$"},
      additionalSystemNamespaces : {"", "mon"},
      dryRun : BOOLEAN ]

\* The number of flags given, that is, not left at their default.
FlagsSet(f) == Cardinality({k \in DOMAIN DefaultFlags : f[k] # DefaultFlags[k]})

\* opts once cobra has parsed the command line: the flags bound to its fields.
BoundOptions(f) ==
    [ ZeroOptions EXCEPT
        !.MaxReleasesToKeep = f.maxReleasesToKeep,
        !.PreserveNamespace = f.preserveNamespace,
        !.CleanupOrphanNamespaces = f.cleanupOrphanNamespaces,
        !.DryRun = f.dryRun ]

\* No parseDuration call has returned, and no /readyz request was answered.
NoResult == [ok |-> FALSE, d |-> 0, wraps |-> 0]
NoResponse == [status |-> 0, reachable |-> FALSE]

\* The goroutine has nothing in hand.
NoLocals ==
    /\ listed = << >> /\ candidates = << >> /\ sorted = << >> /\ toDelete = << >>
    /\ idx = 0 /\ affectedNamespaces = {} /\ nsTodo = {} /\ namespace = ""
    /\ nsItems = << >> /\ orphanNamespaces = << >>
    /\ err = "nil" /\ backoff = 0

\* A Pruner as New returns it, and nothing logged or called yet.
FreshPruner ==
    /\ ready = FALSE /\ initialized = FALSE
    /\ pruneCycleFailuresTotal = 0 /\ cycles = 0
    /\ calls = [uninstalls |-> {}, emptyNamespaces |-> {}, orphanNamespaces |-> {}]
    /\ intents = [releases |-> {}, emptyNamespaces |-> {}, orphanNamespaces |-> {}]
    /\ tick = FALSE /\ justDeleted = FALSE
    /\ parsed = NoResult /\ readyz = NoResponse /\ toDeleteAgain = << >>

\* The clusters the daemon is started in: at most MaxClusterReleases of the releases
\* of ReleaseIds, every other one of them deployed one hour after the others.
StartClusters ==
    {Range(l) : l \in {m \in ReleaseLists(1, MaxClusterReleases, ClusterTimes) :
                         \A i \in 1..Len(m), j \in 1..Len(ReleaseIds) :
                           Id(m[i]) = ReleaseIds[j] => m[i].lastDeployed = (j + 1) % 2}}

Init ==
    /\ flags \in {f \in FlagValues : FlagsSet(f) <= MaxFlagsSet}
    /\ opts = BoundOptions(flags)
    /\ systemNamespaces = {}
    /\ releases \in StartClusters
    /\ namespaces = NamespaceNames
    /\ now = StartTime
    /\ ctxDone = FALSE
    /\ pc = "PreRunE"
    /\ faults = 0
    /\ NoLocals
    /\ FreshPruner
    /\ consecutiveFailures = 0

Next ==
    \/ PreRunE
    \/ New
    \/ RunOnce
    \/ ListAndSelect
    \/ DeleteRelease
    \/ RateLimitReleasesElapsed
    \/ RateLimitReleasesCancelled
    \/ NsQuery
    \/ NsDelete
    \/ ListNamespaces
    \/ ScanNamespace
    \/ DeleteOrphan
    \/ RateLimitOrphansElapsed
    \/ RateLimitOrphansCancelled
    \/ CycleResult
    \/ BackoffElapsed
    \/ BackoffCancelled
    \/ CycleReturn
    \/ TickerFires
    \/ DaemonTick
    \/ DaemonDone
    \/ Cancel

Spec == Init /\ [][Next]_vars

-----------------------------------------------------------------------------
(* The daemon over more cycles, with a command line that has --older-than=1h    *)
(* and releases all older than that, and with a call that may fail in each      *)
(* cycle.                                                                       *)

MaxDaemonCycles == 3        \* prune cycles of one daemon

\* The flags that may differ from their default beside --older-than.
DaemonFlags == {"olderThan", "preserveNamespace", "cleanupOrphanNamespaces",
                "orphanNamespaceFilter"}

\* The last-deployed time of the releases in the cluster when the daemon starts.
DaemonClusterTimes == {0}

InitDaemon ==
    /\ flags \in {f \in FlagValues :
                    /\ f.olderThan # << >>
                    /\ \A k \in DOMAIN DefaultFlags \ DaemonFlags : f[k] = DefaultFlags[k]}
    /\ opts = BoundOptions(flags)
    /\ systemNamespaces = {}
    /\ releases \in {Range(l) : l \in ReleaseLists(1, MaxClusterReleases, DaemonClusterTimes)}
    /\ namespaces = NamespaceNames
    /\ now = StartTime
    /\ ctxDone = FALSE
    /\ pc = "PreRunE"
    /\ faults = MaxFaults - MaxDaemonCycles
    /\ NoLocals
    /\ FreshPruner
    /\ consecutiveFailures = 0

NextDaemon ==
    \/ PreRunE
    \/ New
    \/ RunOnce
    \/ ListAndSelect
    \/ DeleteRelease
    \/ RateLimitReleasesElapsed
    \/ RateLimitReleasesCancelled
    \/ NsQuery
    \/ NsDelete
    \/ ListNamespaces
    \/ ScanNamespace
    \/ DeleteOrphan
    \/ RateLimitOrphansElapsed
    \/ RateLimitOrphansCancelled
    \/ CycleResult
    \/ BackoffElapsed
    \/ BackoffCancelled
    \/ CycleReturn
    \/ TickerFiresUpTo(MaxDaemonCycles)
    \/ DaemonTickUpTo(MaxDaemonCycles)
    \/ DaemonDone
    \/ Cancel

SpecDaemon == InitDaemon /\ [][NextDaemon]_vars

\* The steps of the daemon goroutine that wait for no timer: a call that returns, a
\* receive from a channel that is ready, a step of the code in between.
DaemonRuns ==
    \/ PreRunE
    \/ New
    \/ RunOnce
    \/ ListAndSelect
    \/ DeleteRelease
    \/ RateLimitReleasesCancelled
    \/ NsQuery
    \/ NsDelete
    \/ ListNamespaces
    \/ ScanNamespace
    \/ DeleteOrphan
    \/ RateLimitOrphansCancelled
    \/ CycleResult
    \/ BackoffCancelled
    \/ CycleReturn
    \/ DaemonTickUpTo(MaxDaemonCycles)
    \/ DaemonDone

\* The daemon started with both phases active: --older-than, the empty-namespace
\* check, and orphan cleanup over every namespace.
InitFair ==
    /\ InitDaemon
    /\ ~flags.preserveNamespace
    /\ flags.cleanupOrphanNamespaces
    /\ flags.orphanNamespaceFilter = ".*"

\* That daemon with a goroutine that is scheduled and calls that return; no timer
\* has to fire, and the select of RunDaemon, which chooses at random among its ready
\* cases, does not pass over a ready ctx.Done() for ever.
SpecDaemonFair ==
    InitFair /\ [][NextDaemon]_vars /\ WF_vars(DaemonRuns) /\ SF_vars(DaemonDone)

-----------------------------------------------------------------------------
(* The daemon started with orphan cleanup enabled and a filter for it, with or  *)
(* without --older-than, --namespace-exclude, an exclude pattern for orphans    *)
(* and additional system namespaces.                                            *)

CleanupFlags == {"olderThan", "namespaceExclude", "cleanupOrphanNamespaces",
                 "orphanNamespaceFilter", "orphanNamespaceExclude",
                 "additionalSystemNamespaces"}

InitCleanup ==
    /\ flags \in {f \in FlagValues :
                    /\ f.cleanupOrphanNamespaces
                    /\ f.orphanNamespaceFilter # ""
                    /\ \A k \in DOMAIN DefaultFlags \ CleanupFlags : f[k] = DefaultFlags[k]}
    /\ opts = BoundOptions(flags)
    /\ systemNamespaces = {}
    /\ releases \in StartClusters
    /\ namespaces = NamespaceNames
    /\ now = StartTime
    /\ ctxDone = FALSE
    /\ pc = "PreRunE"
    /\ faults = 0
    /\ NoLocals
    /\ FreshPruner
    /\ consecutiveFailures = 0

SpecCleanup == InitCleanup /\ [][Next]_vars

-----------------------------------------------------------------------------
(* One cycle of that daemon in a cluster other users deploy to while it runs.   *)

\* Someone runs "helm upgrade --install" for a release that is not in the cluster:
\* it is installed, deployed now, into a namespace that exists.
HelmInstall ==
    /\ pc \notin {"PreRunE", "New", "exit"}
    /\ \E i \in 1..Len(ReleaseIds) :
         /\ ~Installed(releases, ReleaseIds[i])
         /\ ReleaseIds[i].namespace \in namespaces
         /\ releases' = releases \cup {Release(ReleaseIds[i], now)}
    /\ UNCHANGED << configVars, namespaces, now, tick, ctxDone, pc, pruneLocals,
                    orphanLocals, sorted, idx, err, stateVars, faults, historyVars >>

\* Someone runs it for a release that is there: a new revision is deployed now.
HelmUpgrade ==
    /\ pc \notin {"PreRunE", "New", "exit"}
    /\ \E rel \in releases :
         /\ rel.lastDeployed < now
         /\ releases' = Uninstalled(releases, rel) \cup {Release(Id(rel), now)}
    /\ UNCHANGED << configVars, namespaces, now, tick, ctxDone, pc, pruneLocals,
                    orphanLocals, sorted, idx, err, stateVars, faults, historyVars >>

InitShared ==
    /\ InitCleanup
    /\ flags.olderThan # << >>
    /\ flags.additionalSystemNamespaces = ""

NextShared ==
    \/ PreRunE
    \/ New
    \/ RunOnce
    \/ ListAndSelect
    \/ DeleteRelease
    \/ RateLimitReleasesElapsed
    \/ NsQuery
    \/ NsDelete
    \/ ListNamespaces
    \/ ScanNamespace
    \/ DeleteOrphan
    \/ RateLimitOrphansElapsed
    \/ CycleResult
    \/ CycleReturn
    \/ HelmInstall
    \/ HelmUpgrade

SpecShared == InitShared /\ [][NextShared]_vars

-----------------------------------------------------------------------------
(* A dry run followed by a live run against the same cluster, each one cycle,   *)
(* as the end-to-end tests start the pruner again and again on one cluster.     *)

\* The process is started again with the same flags, --dry-run taken away.
RunAgainLive ==
    /\ pc = "select"
    /\ flags.dryRun
    /\ flags' = [flags EXCEPT !.dryRun = FALSE]
    /\ opts' = BoundOptions([flags EXCEPT !.dryRun = FALSE])
    /\ systemNamespaces' = {}
    /\ ready' = FALSE /\ initialized' = FALSE /\ consecutiveFailures' = 0
    /\ pruneCycleFailuresTotal' = 0 /\ cycles' = 0 /\ backoff' = 0
    /\ pc' = "PreRunE"
    /\ UNCHANGED << clusterVars, now, tick, ctxDone, pruneLocals, orphanLocals, sorted,
                    idx, err, faults, historyVars, probeVars >>

InitPair ==
    /\ flags \in {f \in FlagValues : FlagsSet(f) <= MaxFlagsSet + 1 /\ f.dryRun}
    /\ opts = BoundOptions(flags)
    /\ systemNamespaces = {}
    /\ releases \in {Range(l) : l \in ReleaseLists(1, MaxClusterReleases, ClusterTimes)}
    /\ namespaces = NamespaceNames
    /\ now = StartTime
    /\ ctxDone = FALSE
    /\ pc = "PreRunE"
    /\ faults = MaxFaults
    /\ NoLocals
    /\ FreshPruner
    /\ consecutiveFailures = 0

NextPair ==
    \/ PreRunE
    \/ New
    \/ RunOnce
    \/ ListAndSelect
    \/ DeleteRelease
    \/ RateLimitReleasesElapsed
    \/ NsQuery
    \/ NsDelete
    \/ ListNamespaces
    \/ ScanNamespace
    \/ DeleteOrphan
    \/ RateLimitOrphansElapsed
    \/ CycleResult
    \/ CycleReturn
    \/ RunAgainLive

SpecPair == InitPair /\ [][NextPair]_vars

-----------------------------------------------------------------------------
(* The unit tests: one function applied to the inputs of a bounded set *)

\* A test holds a Pruner of newTestPruner and touches no cluster.
TestPruner ==
    /\ flags = DefaultFlags
    /\ systemNamespaces = defaultSystemNamespaces
    /\ releases = {} /\ namespaces = {}
    /\ ctxDone = FALSE /\ faults = 0
    /\ sorted = << >> /\ toDelete = << >>
    /\ idx = 0 /\ affectedNamespaces = {} /\ nsTodo = {} /\ namespace = ""
    /\ nsItems = << >> /\ orphanNamespaces = << >>
    /\ err = "nil" /\ backoff = 0
    /\ FreshPruner

testFrame == << flags, probeVars, opts, systemNamespaces, clusterVars, now, tick, ctxDone, idx,
                affectedNamespaces, nsTodo, namespace, orphanLocals, err, ready,
                initialized, pruneCycleFailuresTotal, cycles, faults, historyVars >>

\* The patterns the filter tests compile.
NamespacePatterns == {NilRegex, "^dev$", "^d", "^mon$"}
ReleasePatterns == {NilRegex, "^web$", "^api$", ".*"}

InitFilter ==
    /\ TestPruner
    /\ opts \in {[ZeroOptions EXCEPT !.NamespaceFilter = nf, !.NamespaceExclude = ne,
                                     !.ReleaseFilter = rf, !.ReleaseExclude = re] :
                   nf \in NamespacePatterns, ne \in NamespacePatterns,
                   rf \in ReleasePatterns, re \in ReleasePatterns}
    /\ listed \in ReleaseLists(1, MaxReleases, {0})
    /\ candidates = << >>
    /\ now = 0
    /\ consecutiveFailures = 0
    /\ pc = "TestFilterReleases"

\* TestFilterReleases: p.filterReleases(releases).
TestFilterReleases ==
    /\ pc = "TestFilterReleases"
    /\ candidates' = filterReleases(opts, listed)
    /\ pc' = "filtered"
    /\ UNCHANGED << testFrame, listed, sorted, toDelete, backoff, consecutiveFailures >>

SpecFilter == InitFilter /\ [][TestFilterReleases]_vars

InitSelect ==
    /\ TestPruner
    /\ opts \in {[ZeroOptions EXCEPT !.MaxReleasesToKeep = k, !.OlderThan = t] :
                   k \in 0..MaxKeep, t \in 0..MaxAge}
    /\ listed = << >>
    /\ candidates \in ReleaseLists(1, MaxReleases, 0..MaxTime)
    /\ now = MaxTime
    /\ consecutiveFailures = 0
    /\ pc = "TestSelectReleasesToDelete"

\* TestSelectReleasesToDelete_*: p.selectReleasesToDelete(releases).
TestSelectReleasesToDelete ==
    /\ pc = "TestSelectReleasesToDelete"
    /\ \E srt \in SortSlice(candidates) :
         \E td \in selectReleasesToDelete(opts, candidates, srt, now) :
           /\ sorted' = srt
           /\ toDelete' = td
    /\ pc' = "selected"
    /\ UNCHANGED << testFrame, listed, candidates, backoff, consecutiveFailures >>

SpecSelect == InitSelect /\ [][TestSelectReleasesToDelete]_vars

\* sort.Slice called again on a copy of the same slice with the same less: the
\* algorithm draws on nothing but its input, so it gives the arrangement it gave
\* before.
SortSliceAgainAnyOrder(rels, before) == SortSlice(rels)

SortSliceAgain(rels, before) == {before}

\* p.selectReleasesToDelete(releases) once more, on the same releases, with the same
\* options and at the same time.
SelectAgain ==
    /\ pc = "selected"
    /\ \E srt \in SortSliceAgain(candidates, sorted) :
         \E td \in selectReleasesToDelete(opts, candidates, srt, now) :
           toDeleteAgain' = td
    /\ pc' = "selectedAgain"
    /\ UNCHANGED << flags, parsed, readyz, opts, systemNamespaces, clusterVars, now, tick,
                    ctxDone, pruneLocals, orphanLocals, sorted, idx, err, stateVars,
                    consecutiveFailures, faults, historyVars >>

SpecSelectTwice == InitSelect /\ [][TestSelectReleasesToDelete \/ SelectAgain]_vars

InitBackoff ==
    /\ TestPruner
    /\ opts = ZeroOptions
    /\ listed = << >>
    /\ candidates = << >>
    /\ now = 0
    /\ consecutiveFailures \in (0 - MaxFailureArg)..MaxFailureArg
    /\ pc = "CalculateBackoff"

\* CalculateBackoff(consecutiveFailures).
TestCalculateBackoff ==
    /\ pc = "CalculateBackoff"
    /\ backoff' = CalculateBackoff(consecutiveFailures)
    /\ pc' = "computed"
    /\ UNCHANGED << testFrame, listed, candidates, sorted, toDelete,
                    consecutiveFailures >>

SpecBackoff == InitBackoff /\ [][TestCalculateBackoff]_vars

-----------------------------------------------------------------------------
(* The daemon with its health server, which answers /readyz requests while the  *)
(* daemon goroutine runs.                                                       *)

\* Pruner.Initialized, Pruner.Ready and Pruner.CheckConnectivity, the last for a
\* cluster that is reachable or not when the request is served.
Initialized == initialized
Ready == ready
CheckConnectivity(reachable) == reachable

\* The status the /readyz handler writes.
readyzStatusWhenReady(reachable) ==
    IF ~Ready THEN 503 ELSE IF ~CheckConnectivity(reachable) THEN 503 ELSE 200

readyzStatus(reachable) ==
    IF ~Initialized THEN 503 ELSE IF ~CheckConnectivity(reachable) THEN 503 ELSE 200

\* A request to /readyz is served; the server listens from startHealthServer, which
\* RunE calls between pruner.New and RunDaemon.
Readyz ==
    /\ pc \notin {"PreRunE", "New", "exit"}
    /\ \E reachable \in BOOLEAN :
         readyz' = [status |-> readyzStatus(reachable), reachable |-> reachable]
    /\ UNCHANGED << flags, opts, systemNamespaces, parsed, toDeleteAgain, clusterVars, now,
                    tick, ctxDone, pc, pruneLocals, orphanLocals, sorted, idx, err,
                    stateVars, faults, historyVars >>

SpecProbe == InitFair /\ [][NextDaemon \/ Readyz]_vars

-----------------------------------------------------------------------------
(* The start of the process on any command line, up to the first cycle.         *)

\* The values a flag is given on these command lines: those of FlagValues, and
\* texts that do not parse.
StartFlagValues ==
    [ interval : {1},
      deleteRateLimit : {0, 1},
      maxReleasesToKeep : {0, 1},
      olderThan : {<< >>, <<"1", "h">>, <<"0", "h">>, <<"1", "d">>, <<"1", "x">>, <<"d">>},
      releaseFilter : {"", "^web$", "("},
      namespaceFilter : {"", "^d", "("},
      releaseExcludeFilter : {"", "^api$", "("},
      namespaceExclude : {"", "^mon$", "("},
      preserveNamespace : BOOLEAN,
      cleanupOrphanNamespaces : BOOLEAN,
      orphanNamespaceFilter : {"", ".*", "("},
      orphanNamespaceExclude : {"", "^dev$", "("},
      additionalSystemNamespaces : {"", "mon"},
      dryRun : BOOLEAN ]

InitStart ==
    /\ flags \in {f \in StartFlagValues : FlagsSet(f) <= MaxFlagsSet + 1}
    /\ opts = BoundOptions(flags)
    /\ systemNamespaces = {}
    /\ releases = {} /\ namespaces = NamespaceNames
    /\ now = StartTime
    /\ ctxDone = FALSE
    /\ pc = "PreRunE"
    /\ faults = 0
    /\ NoLocals
    /\ FreshPruner
    /\ consecutiveFailures = 0

SpecStart == InitStart /\ [][PreRunE \/ New]_vars

-----------------------------------------------------------------------------
\* The characters the duration texts of the tests are spelled with, and the longest
\* text that is tried with every spelling.
DurationChars == {"0", "1", "2", "4", "7", "h", "d", "w", "x"}
MaxTextLen == 3

RECURSIVE Texts(_)
Texts(n) ==
    IF n = 0
    THEN {<< >>}
    ELSE Texts(n - 1) \cup {Append(t, c) : t \in Texts(n - 1), c \in DurationChars}

\* The longer texts of TestParseDuration and TestParseDurationEquivalence, and the
\* counts of days, weeks and hours on both sides of the longest time.Duration.
LongTexts ==
    { <<"1", "6", "8", "h">>, <<"3", "3", "6", "h">>,
      <<"1", "0", "6", "7", "5", "1", "d">>, <<"1", "0", "6", "7", "5", "2", "d">>,
      <<"1", "5", "2", "5", "0", "w">>, <<"1", "5", "2", "5", "1", "w">>,
      <<"2", "5", "6", "2", "0", "4", "7", "h">>, <<"2", "5", "6", "2", "0", "4", "8", "h">> }

DurationTexts == Texts(MaxTextLen) \cup LongTexts

InitDuration ==
    /\ flags \in {[DefaultFlags EXCEPT !.olderThan = t] : t \in DurationTexts}
    /\ opts = ZeroOptions
    /\ systemNamespaces = defaultSystemNamespaces
    /\ releases = {} /\ namespaces = {}
    /\ now = 0
    /\ ctxDone = FALSE /\ faults = 0
    /\ NoLocals
    /\ FreshPruner
    /\ consecutiveFailures = 0
    /\ pc = "parseDuration"

\* TestParseDuration: got, err := parseDuration(tt.input).
TestParseDuration ==
    /\ pc = "parseDuration"
    /\ parsed' = parseDuration(flags.olderThan)
    /\ pc' = "parsed"
    /\ UNCHANGED << flags, readyz, toDeleteAgain, opts, systemNamespaces, clusterVars, now,
                    tick, ctxDone,
                    pruneLocals, orphanLocals, sorted, idx, err, stateVars,
                    consecutiveFailures, faults, historyVars >>

SpecDuration == InitDuration /\ [][TestParseDuration]_vars

-----------------------------------------------------------------------------
(* Properties *)

NoCalls == [uninstalls |-> {}, emptyNamespaces |-> {}, orphanNamespaces |-> {}]

\* The protected set of the command line: the defaults and --system-namespaces.
Protected == defaultSystemNamespaces \cup SplitTrimmed(flags.additionalSystemNamespaces)

\* C1: neither deleteNamespaceIfEmpty nor cleanupOrphanNamespaces ever issues a
\* namespace delete for a protected namespace (the four defaults and the configured
\* additional ones), whatever the configuration and the filters match; every
\* protected namespace of the cluster stays in it.
C1_ProtectedNeverDeleted ==
    /\ (calls.emptyNamespaces \cup calls.orphanNamespaces) \cap Protected = {}
    /\ NamespaceNames \cap Protected \subseteq namespaces

\* A cycle uninstalled the last release of a protected namespace and finished its
\* empty-namespace check.
C1_Witness ==
    /\ pc = "cycleResult" /\ err = "nil"
    /\ ~opts.PreserveNamespace
    /\ \E id \in calls.uninstalls :
         /\ id.namespace \in Protected
         /\ ~namespaceHasReleases(releases, id.namespace)

C3_DryRunReportsLiveDeletes ==
    (pc = "select" /\ ~flags.dryRun /\ intents.releases = calls.uninstalls) =>
        /\ intents.emptyNamespaces = calls.emptyNamespaces
        /\ intents.orphanNamespaces = calls.orphanNamespaces

\* C4: in a started daemon CleanupOrphanNamespaces implies OrphanNamespaceFilter is
\* set: orphan cleanup requested without --orphan-namespace-filter is off from PreRunE
\* on, and the orphan phase never runs without the filter.
C4_OrphanCleanupNeedsFilter ==
    pc \notin {"PreRunE", "exit"} =>
        /\ opts.CleanupOrphanNamespaces => opts.OrphanNamespaceFilter # NilRegex
        /\ (flags.cleanupOrphanNamespaces /\ flags.orphanNamespaceFilter = "")
               => ~opts.CleanupOrphanNamespaces
        /\ pc \in {"listNamespaces", "scanNamespaces", "deleteOrphans", "rateLimitOrphans"}
               => opts.OrphanNamespaceFilter # NilRegex

\* Orphan cleanup was requested without a filter and the daemon went through a cycle.
C4_Witness ==
    /\ flags.cleanupOrphanNamespaces /\ flags.orphanNamespaceFilter = ""
    /\ pc = "cycleResult" /\ cycles = 1

Age(rel) == now - rel.lastDeployed
Kept == Range(candidates) \ Range(toDelete)

\* C5: count rule alone (MaxReleasesToKeep = K > 0, OlderThan = 0) over N filtered
\* releases of all namespaces: for K < N exactly N - K are selected and no selected
\* release was deployed later than a kept one; for K >= N none is selected.
C5_CountRule ==
    (pc = "selected" /\ opts.MaxReleasesToKeep > 0 /\ opts.OlderThan = 0) =>
        IF opts.MaxReleasesToKeep < Len(candidates)
        THEN /\ Len(toDelete) = Len(candidates) - opts.MaxReleasesToKeep
             /\ Cardinality(Range(toDelete)) = Len(toDelete)
             /\ Cardinality(Kept) = opts.MaxReleasesToKeep
             /\ Range(toDelete) \subseteq Range(candidates)
             /\ \A d \in Range(toDelete), k \in Kept : d.lastDeployed <= k.lastDeployed
        ELSE toDelete = << >>

\* Three releases of two namespaces, two of them deployed at the same time, K = 2.
C5_Witness ==
    /\ pc = "selected" /\ opts.MaxReleasesToKeep = 2 /\ opts.OlderThan = 0
    /\ Len(candidates) = 3 /\ Len(toDelete) = 1
    /\ \E k \in Kept : k.lastDeployed = toDelete[1].lastDeployed
    /\ \E k \in Kept : k.namespace # toDelete[1].namespace

\* C6: age rule alone (OlderThan = T > 0, MaxReleasesToKeep = 0): a release is
\* selected iff now - last-deployed > T; age T is kept, age T + 1 is selected.
C6_AgeRule ==
    (pc = "selected" /\ opts.OlderThan > 0 /\ opts.MaxReleasesToKeep = 0) =>
        /\ Range(toDelete) = {r \in Range(candidates) : Age(r) > opts.OlderThan}
        /\ \A r \in Range(candidates) :
             /\ Age(r) = opts.OlderThan => r \notin Range(toDelete)
             /\ Age(r) = opts.OlderThan + 1 => r \in Range(toDelete)

\* One release exactly T old is kept beside one T + 1 old that is selected.
C6_Witness ==
    /\ pc = "selected" /\ opts.OlderThan > 0 /\ opts.MaxReleasesToKeep = 0
    /\ \E r \in Kept : Age(r) = opts.OlderThan
    /\ \E r \in Range(toDelete) : Age(r) = opts.OlderThan + 1

CountOnly == [opts EXCEPT !.OlderThan = 0]
AgeOnly == [opts EXCEPT !.MaxReleasesToKeep = 0]

\* C7: for every list, K and T the selection with both rules is the union of the
\* selection of the count rule alone and of the age rule alone (same list, same
\* sort result, same time), and holds each release once.
C7_SelectionIsUnion ==
    pc = "selected" =>
        /\ Range(toDelete) = ToDeleteMap(CountOnly, candidates, sorted, now)
                             \cup ToDeleteMap(AgeOnly, candidates, sorted, now)
        /\ Cardinality(Range(toDelete)) = Len(toDelete)

\* Both rules are active and each selects something, and not the same.
C7_Witness ==
    /\ pc = "selected" /\ opts.MaxReleasesToKeep > 0 /\ opts.OlderThan > 0
    /\ ToDeleteMap(CountOnly, candidates, sorted, now) # {}
    /\ ToDeleteMap(AgeOnly, candidates, sorted, now) # {}
    /\ ToDeleteMap(CountOnly, candidates, sorted, now)
         # ToDeleteMap(AgeOnly, candidates, sorted, now)

\* The four tests of the filter, each alone, the last configured one first.
PassesEvery(rel) ==
    /\ opts.ReleaseExclude = NilRegex \/ ~MatchString(opts.ReleaseExclude, rel.name)
    /\ opts.ReleaseFilter = NilRegex \/ MatchString(opts.ReleaseFilter, rel.name)
    /\ opts.NamespaceExclude = NilRegex \/ ~MatchString(opts.NamespaceExclude, rel.namespace)
    /\ opts.NamespaceFilter = NilRegex \/ MatchString(opts.NamespaceFilter, rel.namespace)

\* C8: filterReleases returns, in the order of its input, exactly the releases that
\* pass all four tests, an unset filter passing everything; the order in which the
\* tests are made does not matter.
C8_FilterIsConjunction ==
    pc = "filtered" => candidates = SelectSeq(listed, PassesEvery)

\* All four filters are set; some releases pass and some do not.
C8_Witness ==
    /\ pc = "filtered"
    /\ opts.NamespaceFilter # NilRegex /\ opts.NamespaceExclude # NilRegex
    /\ opts.ReleaseFilter # NilRegex /\ opts.ReleaseExclude # NilRegex
    /\ candidates # << >>
    /\ Len(candidates) < Len(listed)

\* C9: CalculateBackoff(n) is 0 for n <= 1 and min(2^(n-1), 300) seconds for n >= 2
\* (2^(n-1) is above 300 from n = 10 on): 0, 2, 4, 8 for n = 1..4 and 300 for every
\* n >= 11; it lies in 0..300 for every n and does not decrease with n.
C9_Backoff ==
    pc = "computed" =>
        LET n == consecutiveFailures
        IN  /\ n <= 1 => backoff = 0
            /\ (n >= 2 /\ n <= 9) => backoff = 2 ^ (n - 1)
            /\ n >= 10 => backoff = 300
            /\ n = 2 => backoff = 2
            /\ n = 3 => backoff = 4
            /\ n = 4 => backoff = 8
            /\ backoff >= 0 /\ backoff <= 300
            /\ backoff <= CalculateBackoff(n + 1)

\* The backoff of a failure count beyond the shift cap.
C9_Witness ==
    /\ pc = "computed"
    /\ consecutiveFailures > maxBackoffShift + 1
    /\ backoff = 300

\* C10: a cycle that ends because the context was cancelled is not counted: the step
\* that handles its result leaves the consecutive-failure counter and the failed-cycle
\* metric as they are.
C10_CancelNotCounted ==
    [][(pc = "cycleResult" /\ err = "canceled") =>
         /\ consecutiveFailures' = consecutiveFailures
         /\ pruneCycleFailuresTotal' = pruneCycleFailuresTotal]_vars

\* A step of the release loop that made an uninstall call which removed nothing.
UninstallFailedStep ==
    /\ pc = "deleteReleases" /\ ~ctxDone /\ ~opts.DryRun
    /\ pc' # pc \/ idx' # idx
    /\ releases' = releases

\* A step of the orphan loop that made a delete call which removed nothing.
OrphanDeleteFailedStep ==
    /\ pc = "deleteOrphans" /\ ~ctxDone /\ ~opts.DryRun
    /\ pc' # pc \/ idx' # idx
    /\ namespaces' = namespaces

\* A step of the empty-namespace check that made a delete call which removed nothing.
NsDeleteFailedStep ==
    /\ pc = "nsDelete" /\ ~ctxDone
    /\ pc' # pc
    /\ namespaces' = namespaces

\* C11: a failed uninstall or namespace delete, with the context not cancelled, does
\* not abort the cycle.  The loop goes on with the next item of the same list, every
\* item before the loop index has been attempted, a loop returns without an error only
\* after its last item, the failing step leaves the error of the cycle nil, only a
\* failed list call makes it an error, and a cycle that ends with a nil error sets
\* ready and resets the failure counter.
C11_FailedDeleteGoesOn ==
    /\ []((pc = "deleteReleases" /\ ~opts.DryRun) =>
            \A i \in 1..(idx - 1) : Id(toDelete[i]) \in calls.uninstalls)
    /\ []((pc = "deleteOrphans" /\ ~opts.DryRun) =>
            \A i \in 1..(idx - 1) : orphanNamespaces[i] \in calls.orphanNamespaces)
    /\ [][/\ UninstallFailedStep =>
               /\ err' = "nil"
               /\ Id(toDelete[idx]) \in calls'.uninstalls
               /\ IF idx < Len(toDelete)
                  THEN pc' = "deleteReleases" /\ idx' = idx + 1 /\ toDelete' = toDelete
                  ELSE pc' \in {"nsQuery", ReleasePhaseDone}
          /\ OrphanDeleteFailedStep =>
               /\ err' = "nil"
               /\ orphanNamespaces[idx] \in calls'.orphanNamespaces
               /\ IF idx < Len(orphanNamespaces)
                  THEN /\ pc' = "deleteOrphans" /\ idx' = idx + 1
                       /\ orphanNamespaces' = orphanNamespaces
                  ELSE pc' = "cycleResult"
          /\ NsDeleteFailedStep =>
               /\ err' = "nil"
               /\ namespace \in calls'.emptyNamespaces
               /\ IF nsTodo # {}
                  THEN pc' = "nsQuery" /\ nsTodo' = nsTodo
                  ELSE pc' = ReleasePhaseDone
          /\ (pc = "deleteReleases" /\ ~ctxDone
                /\ pc' \notin {"deleteReleases", "rateLimitReleases"}) =>
               idx = Len(toDelete) /\ err' = "nil"
          /\ (pc = "deleteOrphans" /\ ~ctxDone
                /\ pc' \notin {"deleteOrphans", "rateLimitOrphans"}) =>
               idx = Len(orphanNamespaces) /\ err' = "nil"
          /\ (err' = "error" /\ err # "error") =>
               pc \in {"listAllReleases", "listNamespaces"}
          /\ (pc = "cycleResult" /\ err = "nil" /\ pc' # pc) =>
               /\ ready' /\ consecutiveFailures' = 0
               /\ pruneCycleFailuresTotal' = pruneCycleFailuresTotal]_vars

\* The first of two selected releases is still installed after its uninstall was
\* called, and the loop stands at the second.
C11_Witness ==
    /\ pc = "deleteReleases" /\ idx = 2 /\ ~ctxDone
    /\ Id(toDelete[1]) \in calls.uninstalls
    /\ Installed(releases, toDelete[1])

\* C12: a failed list call ends its phase and the cycle at once.  The step in which
\* listing the releases or listing the namespaces fails makes no call that changes the
\* cluster and hands the error straight to the cycle's result, so that neither a delete
\* nor the orphan phase follows it; no step between the result of a cycle and the
\* start of the next makes a call; and the result of such a cycle adds one to the
\* failure counter and to the failed-cycle metric and does not set ready.
C12_ListFailureAbortsPhase ==
    [][/\ (pc \in {"listAllReleases", "listNamespaces"} /\ err' = "error") =>
            /\ pc' = "cycleResult"
            /\ calls' = calls /\ intents' = intents
            /\ releases' = releases /\ namespaces' = namespaces
       /\ pc \in {"cycleResult", "backoffSleep", "cycleReturn", "select"} =>
            /\ calls' = calls /\ intents' = intents
            /\ releases' = releases /\ namespaces' = namespaces
            /\ pc' \in {"cycleResult", "backoffSleep", "cycleReturn", "select",
                        "RunOnce", "returned"}
       /\ (pc = "cycleResult" /\ err = "error" /\ pc' # pc) =>
            /\ consecutiveFailures' = consecutiveFailures + 1
            /\ pruneCycleFailuresTotal' = pruneCycleFailuresTotal + 1
            /\ ready' = ready]_vars

\* The first cycle has ended in an error with orphan cleanup enabled and without a
\* single call, although a release old enough to be uninstalled is installed.
C12_Witness ==
    /\ pc = "cycleReturn" /\ cycles = 1 /\ err = "error"
    /\ consecutiveFailures = 1
    /\ opts.CleanupOrphanNamespaces /\ ~opts.DryRun
    /\ calls = NoCalls
    /\ \E rel \in releases : Age(rel) > opts.OlderThan

\* The cycle attempts of RunDaemon that have finished (runCycleWithBackoff returned);
\* cycles counts the calls of RunOnce.
AttemptsFinished ==
    IF pc \in {"select", "RunOnce", "returned"} THEN cycles
    ELSE IF cycles >= 1 THEN cycles - 1 ELSE 0

\* The cycles whose result runCycleWithBackoff has handled.
CyclesHandled ==
    IF pc \in {"backoffSleep", "cycleReturn", "select", "RunOnce", "returned"} THEN cycles
    ELSE IF cycles >= 1 THEN cycles - 1 ELSE 0

\* C13: Initialized() is true exactly when the first cycle attempt of RunDaemon has
\* finished, whatever its result; Ready() is true exactly when at least one cycle has
\* been handled as a success; and no step takes either flag back to false.
C13_InitializedAndReady ==
    /\ [](initialized <=> AttemptsFinished >= 1)
    /\ [](ready <=> CyclesHandled - pruneCycleFailuresTotal >= 1)
    /\ [][(initialized => initialized') /\ (ready => ready')]_vars

\* A cycle has failed after a successful one, and both flags are still set.
C13_Witness ==
    /\ pc = "select" /\ cycles >= 2
    /\ consecutiveFailures >= 1
    /\ initialized /\ ready

\* C14: the consecutive-failure counter changes only when runCycleWithBackoff handles
\* the result of a cycle: a nil error sets it to zero without a sleep, an error adds
\* one and sleeps CalculateBackoff of the new count, which is nothing for a count of
\* one, 2s for two and 4s for three.  Until the first success the counter is the
\* number of cycles handled, and a backoff sleep is only ever entered with a count of
\* two or more and the backoff of that count.
C14_CounterAndBackoff ==
    /\ [](~ready => consecutiveFailures = CyclesHandled)
    /\ [](consecutiveFailures >= 0 /\ consecutiveFailures <= CyclesHandled)
    /\ [](pc = "backoffSleep" =>
            /\ consecutiveFailures >= 2
            /\ backoff = CalculateBackoff(consecutiveFailures)
            /\ backoff = 2 ^ (consecutiveFailures - 1))
    /\ [][IF pc = "cycleResult" /\ pc' # pc
          THEN IF err = "nil"
               THEN /\ consecutiveFailures' = 0
                    /\ pc' = "cycleReturn"
                    /\ backoff' = 0
               ELSE /\ consecutiveFailures' = consecutiveFailures + 1
                    /\ backoff' = CalculateBackoff(consecutiveFailures')
                    /\ consecutiveFailures' = 1 => (backoff' = 0 /\ pc' = "cycleReturn")
                    /\ consecutiveFailures' = 2 => (backoff' = 2 /\ pc' = "backoffSleep")
                    /\ consecutiveFailures' = 3 => (backoff' = 4 /\ pc' = "backoffSleep")
          ELSE consecutiveFailures' = consecutiveFailures]_vars

\* After a successful cycle two cycles have failed: the second failure sleeps 2s.
C14_Witness ==
    /\ pc = "backoffSleep" /\ cycles = 3
    /\ ready
    /\ consecutiveFailures = 2 /\ backoff = 2

\* A step of a delete loop that makes a live delete call for an item after the first
\* of its list.
LaterDeleteAttempt ==
    /\ pc \in {"deleteReleases", "deleteOrphans"}
    /\ ~ctxDone /\ ~opts.DryRun
    /\ idx > 1
    /\ pc' # pc \/ idx' # idx

\* C15: with DeleteRateLimit > 0 and DryRun off, a delete loop has waited for the rate
\* limit since its previous attempt, failed or not, when it makes its next attempt, and
\* it does not wait after the last item of its list.
C15_RateLimitBetweenAttempts ==
    [][/\ (opts.DeleteRateLimit > 0 /\ LaterDeleteAttempt) => ~justDeleted
       /\ pc' = "rateLimitReleases" => idx' < Len(toDelete')
       /\ pc' = "rateLimitOrphans" => idx' < Len(orphanNamespaces')]_vars

\* C16: with DeleteRateLimit > 0, the empty-namespace check has waited for the rate
\* limit since the previous delete call of the cycle (the last uninstall, or the
\* previous namespace delete of the check) when it calls a namespace delete.
C16_RateLimitCoversNamespaceDeletes ==
    [][(opts.DeleteRateLimit > 0 /\ pc = "nsDelete" /\ ~ctxDone /\ pc' # pc) =>
         ~justDeleted]_vars

\* C17: with PreserveNamespace set, a namespace from which the first cycle uninstalled
\* a release still exists when that cycle ends, whatever else is configured.
C17_PreserveNamespaceKeeps ==
    (opts.PreserveNamespace /\ cycles = 1 /\ pc = "cycleResult") =>
        \A id \in calls.uninstalls : id.namespace \in namespaces

\* C18: cycles of RunDaemon do not overlap.  A cycle is started only from the start of
\* RunDaemon or from its select, where the previous runCycleWithBackoff has returned
\* with its backoff sleep over and a tick has been received; while a cycle runs, a
\* tick that arrives changes neither the place the cycle is at nor the count of
\* cycles; and the cycles started are never more than one ahead of those finished.
C18_CyclesDoNotOverlap ==
    /\ [](cycles - AttemptsFinished \in {0, 1})
    /\ [][/\ (pc' = "RunOnce" /\ pc # "RunOnce") =>
               /\ pc \in {"New", "select"}
               /\ pc = "New" => cycles = 0
               /\ pc = "select" =>
                    /\ tick /\ ~tick'
                    /\ initialized /\ backoff = 0
                    /\ AttemptsFinished = cycles
          /\ cycles' # cycles => (pc = "RunOnce" /\ cycles' = cycles + 1)
          /\ tick' # tick => (pc' = pc \/ pc = "select")]_vars

\* A tick is waiting while the second cycle is in its delete loop.
C18_Witness ==
    /\ cycles = 2 /\ pc = "deleteReleases"
    /\ tick

ContextChecked ==
    {"listAllReleases", "deleteReleases", "nsQuery", "listNamespaces", "scanNamespaces",
     "deleteOrphans"}

C21_CancelLeadsToReturn ==
    /\ ctxDone ~> (pc = "returned")
    /\ [](pc = "returned" => ctxDone)

\* RunDaemon has returned after a cancelled cycle that was the second failure in a
\* row, whose result is followed by a backoff sleep.
C21_Witness ==
    /\ pc = "returned" /\ ctxDone
    /\ err = "canceled"
    /\ consecutiveFailures >= 2

\* A namespace the command line makes a candidate of orphan cleanup: not protected,
\* matched by --orphan-namespace-filter and not by --orphan-namespace-exclude.
OrphanCandidate(n) ==
    /\ n \notin Protected
    /\ n \in Lang(flags.orphanNamespaceFilter)
    /\ flags.orphanNamespaceExclude # "" => n \notin Lang(flags.orphanNamespaceExclude)

\* C22: the orphan phase calls a namespace delete only for the namespace its second
\* loop stands at, and every namespace of that loop's list is a candidate of the
\* command line without a release.  The scan adds at most the namespace it stands at;
\* when the release query of that namespace fails the namespace is not added, no
\* error is set, and the scan goes on with the namespaces that remain.
C22_OrphanDeleteConditions ==
    /\ [](pc \in {"scanNamespaces", "deleteOrphans", "rateLimitOrphans"} =>
            \A n \in Range(orphanNamespaces) :
                OrphanCandidate(n) /\ \A rel \in releases : rel.namespace # n)
    /\ [][/\ calls'.orphanNamespaces # calls.orphanNamespaces =>
               /\ pc = "deleteOrphans" /\ ~opts.DryRun
               /\ calls'.orphanNamespaces =
                      calls.orphanNamespaces \cup {orphanNamespaces[idx]}
          /\ (pc = "scanNamespaces" /\ pc' \in {"scanNamespaces", "deleteOrphans"}) =>
               orphanNamespaces' \in {orphanNamespaces,
                                      Append(orphanNamespaces, Head(nsItems))}
          /\ (pc = "scanNamespaces" /\ faults' # faults) =>
               /\ Head(nsItems) \notin Range(orphanNamespaces')
               /\ err' = "nil"
               /\ Len(nsItems) > 1 =>
                    (pc' = "scanNamespaces" /\ nsItems' = Tail(nsItems))]_vars

\* The first cycle has deleted an orphan namespace and has left alone another
\* candidate without a release: the query of that one had failed.
C22_Witness ==
    /\ pc = "cycleResult" /\ cycles = 1 /\ ~ctxDone
    /\ faults = 1 /\ err = "nil"
    /\ calls.orphanNamespaces # {}
    /\ \E n \in namespaces :
         /\ OrphanCandidate(n) /\ \A rel \in releases : rel.namespace # n
         /\ n \notin calls.orphanNamespaces

\* C23: the release phase calls a namespace delete only from its empty-namespace
\* check, and only for a namespace that holds a release selected in this cycle, is not
\* protected and has no release left, with PreserveNamespace and DryRun off.  The check
\* starts when the delete loop has attempted every selected release, so a namespace
\* whose selected release is still installed after a failed uninstall is not deleted.
C23_EmptyNamespaceDeleteConditions ==
    /\ [](pc \in {"nsQuery", "nsDelete"} =>
            /\ ~opts.PreserveNamespace
            /\ \A i \in 1..Len(toDelete) :
                 Id(toDelete[i]) \in calls.uninstalls \cup intents.releases)
    /\ [](pc = "nsDelete" =>
            /\ ~opts.DryRun
            /\ \E i \in 1..Len(toDelete) : toDelete[i].namespace = namespace
            /\ namespace \notin Protected
            /\ \A rel \in releases : rel.namespace # namespace)
    /\ [][calls'.emptyNamespaces # calls.emptyNamespaces =>
            /\ pc = "nsDelete"
            /\ calls'.emptyNamespaces = calls.emptyNamespaces \cup {namespace}]_vars

\* The first cycle has deleted one emptied namespace and has left alone the namespace
\* of a release that is still installed after its uninstall was called.
C23_Witness ==
    /\ pc = "cycleResult" /\ cycles = 1 /\ ~ctxDone
    /\ calls.emptyNamespaces # {}
    /\ \E rel \in releases :
         /\ Id(rel) \in calls.uninstalls
         /\ rel.namespace \notin calls.emptyNamespaces
         /\ rel.namespace \notin Protected

\* The places of a cycle inside pruneReleases and inside cleanupOrphanNamespaces.
ReleasePhase ==
    {"listAllReleases", "deleteReleases", "rateLimitReleases", "nsQuery", "nsDelete"}
OrphanPhase ==
    {"listNamespaces", "scanNamespaces", "deleteOrphans", "rateLimitOrphans"}

\* One of the six release-pruning options is configured.
PruningConfigured ==
    \/ opts.OlderThan > 0 \/ opts.MaxReleasesToKeep > 0
    \/ \E re \in {opts.ReleaseFilter, opts.NamespaceFilter, opts.ReleaseExclude,
                  opts.NamespaceExclude} : re # NilRegex

C25_NoRuleSelectsNothing ==
    /\ [](opts.MaxReleasesToKeep <= 0 /\ opts.OlderThan <= 0
            => calls.uninstalls = {} /\ calls.emptyNamespaces = {})
    /\ [][pc = "listAllReleases" /\ pc' = "deleteReleases"
            => /\ Len(candidates') > 0
               /\ Len(toDelete') > 0
               /\ opts.MaxReleasesToKeep > 0 \/ opts.OlderThan > 0]_vars
    /\ [][pc = "listAllReleases" /\ err' = "error" => faults' > faults]_vars

\* A release phase with --namespace-exclude only has listed a release that passes
\* the filter and is older than the start of the cycle, and has returned nil.
C25_Witness ==
    /\ pc = "listNamespaces" /\ cycles = 1 /\ err = "nil"
    /\ flags.namespaceExclude # "" /\ flags.olderThan = << >>
    /\ opts.OlderThan = 0 /\ opts.MaxReleasesToKeep = 0
    /\ \E rel \in releases :
         /\ rel.namespace \notin Lang(flags.namespaceExclude)
         /\ rel.lastDeployed < now
    /\ calls.uninstalls = {}

\* The text is a decimal count followed by the character unit.
CountWithUnit(text, unit) ==
    /\ Len(text) >= 2
    /\ text[Len(text)] = unit
    /\ \A i \in 1..(Len(text) - 1) : text[i] \in DecimalDigits

\* The count of such a text.
CountOf(text) == DecimalValue(SubSeq(text, 1, Len(text) - 1))

\* C29: parseDuration maps a decimal count k followed by 'd' to k * 24 hours and
\* followed by 'w' to k * 168 hours (so kd is (24k)h and kw is (168k)h and (7k)d);
\* a text time.ParseDuration accepts keeps the value it gives; the empty text, a
\* bare 'd' or 'w' and a text ending in an unknown unit are rejected.
C29_DaysAndWeeksAreHours ==
    pc = "parsed" =>
        LET text == flags.olderThan
        IN  /\ CountWithUnit(text, "d")
                => parsed = [ok |-> TRUE, d |-> CountOf(text) * 24, wraps |-> 0]
            /\ CountWithUnit(text, "w")
                => parsed = [ok |-> TRUE, d |-> CountOf(text) * 168, wraps |-> 0]
            /\ timeParseDuration(text).ok => parsed = timeParseDuration(text)
            /\ CountWithUnit(text, "h") /\ CountOf(text) <= MaxDurationHours
                => parsed = [ok |-> TRUE, d |-> CountOf(text), wraps |-> 0]
            /\ text \in {<< >>, <<"d">>, <<"w">>} => ~parsed.ok
            /\ text # << >> /\ text[Len(text)] = "x" => ~parsed.ok

\* The same with the counts held to those whose hours a time.Duration can hold.
C29_InRange ==
    pc = "parsed" =>
        LET text == flags.olderThan
        IN  /\ CountWithUnit(text, "d") /\ CountOf(text) * 24 <= MaxDurationHours
                => parsed = [ok |-> TRUE, d |-> CountOf(text) * 24, wraps |-> 0]
            /\ CountWithUnit(text, "w") /\ CountOf(text) * 168 <= MaxDurationHours
                => parsed = [ok |-> TRUE, d |-> CountOf(text) * 168, wraps |-> 0]
            /\ timeParseDuration(text).ok => parsed = timeParseDuration(text)
            /\ CountWithUnit(text, "h") /\ CountOf(text) <= MaxDurationHours
                => parsed = [ok |-> TRUE, d |-> CountOf(text), wraps |-> 0]
            /\ text \in {<< >>, <<"d">>, <<"w">>} => ~parsed.ok
            /\ text # << >> /\ text[Len(text)] = "x" => ~parsed.ok

\* A flag of the command line does not parse: the text of --older-than, or one of
\* the six patterns.
FlagFailsToParse ==
    \/ flags.olderThan # << >> /\ ~parseDuration(flags.olderThan).ok
    \/ "(" \in {flags.releaseFilter, flags.namespaceFilter, flags.releaseExcludeFilter,
                flags.namespaceExclude, flags.orphanNamespaceFilter,
                flags.orphanNamespaceExclude}

\* The command line sets a release-pruning option: an age or a count above zero,
\* or one of the four release filters.
PruningOptionSet ==
    \/ flags.olderThan # << >> /\ parseDuration(flags.olderThan).d > 0
    \/ flags.maxReleasesToKeep > 0
    \/ flags.releaseFilter # "" \/ flags.namespaceFilter # ""
    \/ flags.releaseExcludeFilter # "" \/ flags.namespaceExclude # ""

\* Orphan cleanup is enabled once PreRunE has disabled it for a missing filter.
CleanupStaysEnabled == flags.cleanupOrphanNamespaces /\ flags.orphanNamespaceFilter # ""

\* C26: PreRunE returns an error iff a flag value fails to parse or, after the
\* orphan-cleanup-disabling step, no release-pruning option is set and orphan
\* cleanup is not enabled; so when the daemon starts, RunOnce has a phase to run.
C26_StartupValidation ==
    /\ pc # "PreRunE"
         => (pc = "exit" <=> FlagFailsToParse \/ (~PruningOptionSet /\ ~CleanupStaysEnabled))
    /\ pc \in {"New", "RunOnce"}
         => \/ opts.OlderThan > 0 \/ opts.MaxReleasesToKeep > 0
            \/ opts.ReleaseFilter # NilRegex \/ opts.NamespaceFilter # NilRegex
            \/ opts.ReleaseExclude # NilRegex \/ opts.NamespaceExclude # NilRegex
            \/ opts.CleanupOrphanNamespaces

\* --cleanup-orphan-namespaces was given without its filter and with nothing else
\* that prunes: every flag parses, cleanup is disabled, and PreRunE fails.
C26_Witness ==
    /\ pc = "exit"
    /\ flags.cleanupOrphanNamespaces /\ flags.orphanNamespaceFilter = ""
    /\ flags.orphanNamespaceExclude = "^dev$"
    /\ ~opts.CleanupOrphanNamespaces
    /\ ~FlagFailsToParse

\* The step is an uninstall attempt of the release loop, a delete attempt of
\* deleteNamespaceIfEmpty, a delete attempt of the orphan loop.
UninstallAttemptStep ==
    /\ pc = "deleteReleases" /\ ~ctxDone /\ ~opts.DryRun
    /\ idx' # idx \/ pc' # pc

EmptyNamespaceAttemptStep ==
    /\ pc = "nsDelete" /\ ~ctxDone
    /\ nsTodo' # nsTodo \/ pc' # pc

OrphanAttemptStep ==
    /\ pc = "deleteOrphans" /\ ~ctxDone /\ ~opts.DryRun
    /\ idx' # idx \/ pc' # pc

\* C27: within one cycle (here the first, whose attempts are those of calls) each
\* selected release receives at most one uninstall attempt and each namespace at
\* most one delete attempt: nothing that was attempted is attempted again before
\* the next cycle.
C27_OneAttemptPerCycle ==
    [][cycles = 1 =>
         /\ UninstallAttemptStep => Id(toDelete[idx]) \notin calls.uninstalls
         /\ EmptyNamespaceAttemptStep
              => namespace \notin calls.emptyNamespaces \cup calls.orphanNamespaces
         /\ OrphanAttemptStep
              => orphanNamespaces[idx] \notin calls.emptyNamespaces \cup calls.orphanNamespaces]_vars

\* Within one loop nothing is attempted twice: the release loop and the two
\* namespace loops each attempt an item once, failed or not.
C27_OneAttemptPerLoop ==
    [][cycles = 1 =>
         /\ UninstallAttemptStep => Id(toDelete[idx]) \notin calls.uninstalls
         /\ EmptyNamespaceAttemptStep => namespace \notin calls.emptyNamespaces
         /\ OrphanAttemptStep => orphanNamespaces[idx] \notin calls.orphanNamespaces]_vars

FirstAttemptFinished ==
    \/ cycles >= 2
    \/ cycles = 1 /\ pc \in {"select", "RunOnce", "returned"}

\* C30: /readyz answers 200 iff Initialized() is true and the connectivity check
\* succeeds when the request is served; it has never answered 200 before the first
\* cycle attempt has finished; and it answers 200 when every cycle so far has
\* failed (Ready() false), provided the cluster is reachable.
C30_ReadyzStatus ==
    /\ [](readyz.status = 200 => FirstAttemptFinished)
    /\ [][readyz' # readyz
            => /\ readyz'.status \in {200, 503}
               /\ readyz'.status = 200 <=> initialized /\ readyz'.reachable]_vars
    /\ [][(readyz' # readyz /\ readyz'.reachable /\ FirstAttemptFinished
              /\ pruneCycleFailuresTotal = cycles /\ ~ready)
            => readyz'.status = 200]_vars

\* Every cycle so far has failed, the cluster is reachable, and /readyz has
\* answered 200 after having answered 503 while the first cycle ran.
C30_Witness ==
    /\ readyz = [status |-> 200, reachable |-> TRUE]
    /\ ~ready /\ initialized
    /\ cycles >= 2 /\ pruneCycleFailuresTotal >= 2 /\ consecutiveFailures >= 2

\* The release named id passes the four filters of the command line: it matches
\* every include pattern given and no exclude pattern given.
PassesFlags(id) ==
    /\ flags.releaseFilter = "" \/ id.name \in Lang(flags.releaseFilter)
    /\ flags.namespaceFilter = "" \/ id.namespace \in Lang(flags.namespaceFilter)
    /\ flags.releaseExcludeFilter = "" \/ id.name \notin Lang(flags.releaseExcludeFilter)
    /\ flags.namespaceExclude = "" \/ id.namespace \notin Lang(flags.namespaceExclude)

\* C31: every release the pruner uninstalls passed filterReleases and was selected
\* from the list taken in the same cycle: no release that fails an include filter
\* or matches an exclude filter is ever uninstalled, and the empty-namespace check
\* touches only namespaces of selected releases.
C31_OnlyFilteredAndSelected ==
    /\ [](\A id \in calls.uninstalls : PassesFlags(id))
    /\ [](calls.emptyNamespaces \subseteq {id.namespace : id \in calls.uninstalls})
    /\ [](pc \in {"nsQuery", "nsDelete"}
            => \A n \in nsTodo \cup ({namespace} \ {""}) :
                 \E i \in 1..Len(toDelete) : toDelete[i].namespace = n)
    /\ [][UninstallAttemptStep
            => (toDelete[idx] \in Range(listed) /\ toDelete[idx] \in Range(candidates)
                /\ toDelete[idx] \in releases /\ PassesFlags(Id(toDelete[idx])))]_vars

\* With --namespace-filter, an old release inside the filter was uninstalled and
\* its namespace deleted, while an equally old release outside it is still there.
C31_Witness ==
    /\ pc = "cycleResult" /\ cycles = 1
    /\ flags.namespaceFilter # "" /\ flags.olderThan # << >>
    /\ calls.uninstalls # {} /\ calls.emptyNamespaces # {}
    /\ \E rel \in releases :
         /\ rel.namespace \notin Lang(flags.namespaceFilter)
         /\ now - rel.lastDeployed > opts.OlderThan

\* C32: with both rules active (K > 0, T > 0) a filtered release is kept iff it is
\* among the K most recently deployed (the first K of the sorted list) and its age
\* is at most T; a release among the K newest that is older than T is selected.
C32_KeptIffNewAndYoung ==
    (pc = "selected" /\ opts.MaxReleasesToKeep > 0 /\ opts.OlderThan > 0) =>
        /\ \A i \in 1..Len(sorted) :
             sorted[i] \in Kept
               <=> (i <= opts.MaxReleasesToKeep /\ Age(sorted[i]) <= opts.OlderThan)
        /\ \A r \in Kept :
             /\ Age(r) <= opts.OlderThan
             /\ Cardinality({c \in Range(candidates) : c.lastDeployed > r.lastDeployed})
                  < opts.MaxReleasesToKeep
        /\ \A r \in Range(candidates) :
             (/\ Age(r) <= opts.OlderThan
              /\ Cardinality({c \in Range(candidates) \ {r} :
                                c.lastDeployed >= r.lastDeployed})
                   < opts.MaxReleasesToKeep)
               => r \in Kept
        /\ Range(toDelete) \subseteq Range(candidates)

\* Both rules active, fewer releases than the keep count, and the newest of them
\* is selected because it is older than T, while nothing is beyond the count.
C32_Witness ==
    /\ pc = "selected" /\ opts.MaxReleasesToKeep > 0 /\ opts.OlderThan > 0
    /\ Len(sorted) >= 2 /\ Len(sorted) <= opts.MaxReleasesToKeep
    /\ sorted[1] \in Range(toDelete)
    /\ Age(sorted[1]) > opts.OlderThan

\* C33: in every state a reader of the health flags can observe, Ready() implies
\* Initialized(): the ready flag is never true while the initialized flag is false.
C33_ReadyImpliesInitialized == Ready => Initialized

\* C34: whenever the pruner issues a namespace delete, from the empty-namespace
\* check or from the orphan phase, the namespace holds no release at the moment of
\* the delete call, also when releases are installed by others while it runs.
C34_DeletedNamespaceIsEmpty ==
    /\ [][EmptyNamespaceAttemptStep
            => \A rel \in releases : rel.namespace # namespace]_vars
    /\ [][OrphanAttemptStep
            => \A rel \in releases : rel.namespace # orphanNamespaces[idx]]_vars

\* C35: every release the pruner uninstalls satisfies the age or count rule at the
\* moment of the uninstall call, also when it is deployed again by others after
\* the list of the cycle was taken.  (The daemons here run the age rule alone.)
C35_UninstalledIsStale ==
    [][(UninstallAttemptStep /\ opts.MaxReleasesToKeep = 0)
         => \A rel \in releases :
              Id(rel) = Id(toDelete[idx]) => now - rel.lastDeployed > opts.OlderThan]_vars

-----------------------------------------------------------------------------
(* The daemon of SpecDaemonFair with its timers running: the time.After of a    *)
(* backoff or rate-limit sleep fires when its duration has passed, and the      *)
(* ticker of RunDaemon delivers a tick every interval until it is stopped.      *)

TimersFire ==
    \/ BackoffElapsed
    \/ RateLimitReleasesElapsed
    \/ RateLimitOrphansElapsed

\* The daemon of InitFair over a cluster of one namespace with releases.
InitTimers ==
    /\ InitFair
    /\ \A r1, r2 \in releases : r1.namespace = r2.namespace

SpecDaemonTimers ==
    /\ InitTimers /\ [][NextDaemon]_vars
    /\ WF_vars(DaemonRuns)
    /\ WF_vars(TimersFire) /\ WF_vars(TickerFiresUpTo(MaxDaemonCycles))

\* A tick waits in ticker.C or the ticker has one more to deliver.
TickToCome ==
    tick \/ now < StartTime + (MaxDaemonCycles - 1) * flags.interval

\* C36: RunDaemon returns only from its select and only with the context cancelled,
\* whatever the number of failed cycles before; a failed cycle is followed by its
\* backoff and the return to the select, never by the end of RunDaemon; and when a
\* cycle has failed and a tick is still to come, a further cycle is started unless the
\* context is cancelled first.
C36_FailuresNeverStopDaemon ==
    /\ [][(pc' = "returned" /\ pc # "returned") => (pc = "select" /\ ctxDone)]_vars
    /\ [][(pc = "cycleResult" /\ err # "nil" /\ pc' # pc) =>
            (pc' \in {"backoffSleep", "cycleReturn"} /\ cycles' = cycles)]_vars
    /\ [][(pc = "backoffSleep" /\ pc' # pc) => pc' = "cycleReturn"]_vars
    /\ [][(pc = "cycleReturn" /\ pc' # pc) => pc' = "select"]_vars
    /\ \A n \in 1..(MaxDaemonCycles - 1) :
         (pc = "cycleResult" /\ err # "nil" /\ cycles = n /\ TickToCome)
            ~> ((pc = "RunOnce" /\ cycles = n) \/ cycles > n \/ ctxDone)

\* The third cycle is being started after two cycles that failed in a row, the
\* context not cancelled.
C36_Witness ==
    /\ pc = "RunOnce" /\ cycles = MaxDaemonCycles - 1
    /\ consecutiveFailures = MaxDaemonCycles - 1
    /\ pruneCycleFailuresTotal = MaxDaemonCycles - 1
    /\ ~ctxDone

\* C37: once the context is cancelled no prune cycle is started: neither the first one,
\* when RunDaemon is called with the context cancelled already, nor a later one from
\* a tick that waits in ticker.C when the context is cancelled.
C37_NoCycleAfterCancel ==
    [][ctxDone => (cycles' = cycles /\ (pc' = "RunOnce" => pc = "RunOnce"))]_vars

\* RunDaemon's select has received a waiting tick with the context cancelled, and the
\* cycle it started has run and been counted as a failure.
C37_Witness ==
    /\ ctxDone /\ cycles = 2
    /\ pc = "cycleReturn" /\ err = "canceled"
    /\ pruneCycleFailuresTotal = 1
    /\ calls = NoCalls

\* The releases of the cluster that pass the filters of the command line.
Passing == {c \in releases : PassesFlags(Id(c))}

\* A rule of the command line marks release r whatever order the sort gives to
\* releases deployed at the same time; a rule may mark it under some such order.
MustSelect(r) ==
    /\ r \in Passing
    /\ \/ opts.OlderThan > 0 /\ Age(r) > opts.OlderThan
       \/ /\ opts.MaxReleasesToKeep > 0
          /\ Cardinality({c \in Passing : c.lastDeployed > r.lastDeployed})
               >= opts.MaxReleasesToKeep

MaySelect(r) ==
    /\ r \in Passing
    /\ \/ opts.OlderThan > 0 /\ Age(r) > opts.OlderThan
       \/ /\ opts.MaxReleasesToKeep > 0
          /\ Cardinality({c \in Passing \ {r} : c.lastDeployed >= r.lastDeployed})
               >= opts.MaxReleasesToKeep

\* C38: the protected set plays no part in the choice and the uninstall of releases.
\* What a cycle selects is decided by the filters and the two rules alone, so a
\* release of a protected namespace that passes them is selected; the delete loop
\* calls uninstall for the release it stands at whatever its namespace; and the
\* protected namespaces themselves stay in the cluster.
C38_ProtectionCoversNamespaceOnly ==
    /\ [][(pc = "listAllReleases" /\ pc' = "deleteReleases") =>
            \A r \in releases :
              /\ MustSelect(r) => r \in Range(toDelete')
              /\ r \in Range(toDelete') => MaySelect(r)]_vars
    /\ [][(pc = "listAllReleases" /\ pc' \notin {pc, "deleteReleases"} /\ err' = "nil") =>
            \A r \in releases : ~MustSelect(r)]_vars
    /\ [][UninstallAttemptStep =>
            (/\ Id(toDelete[idx]) \in calls'.uninstalls
             /\ releases' \in {releases, releases \ {toDelete[idx]}})]_vars
    /\ [](\A id \in calls.uninstalls :
            id.namespace \in Protected => id.namespace \in namespaces)

\* One cycle has uninstalled a release of a protected namespace and a release of
\* another namespace; the other namespace, left empty, was deleted and the
\* protected one, left empty as well, is still there.
C38_Witness ==
    /\ pc = "cycleResult" /\ err = "nil" /\ cycles = 1
    /\ \E id1, id2 \in calls.uninstalls :
         /\ id1.namespace \in Protected /\ id2.namespace \notin Protected
         /\ ~namespaceHasReleases(releases, id1.namespace)
         /\ id1.namespace \in namespaces
         /\ id2.namespace \in calls.emptyNamespaces
         /\ id2.namespace \notin namespaces

\* The int64 nanoseconds of result r, in hours: the product less 2^64 nanoseconds
\* (5124095.576 hours) for every time it wrapped, to the hour.
Int64Hours(r) == r.d - r.wraps * (2 * MaxDurationHours + 1)

\* C39: for every count k, parseDuration of k days and of k weeks succeeds with a
\* duration that is not negative and not below the duration of any smaller count
\* of the same unit: the product with 24h or 168h never wraps.
C39_DaysAndWeeksNeverWrap ==
    pc = "parsed" =>
        LET text == flags.olderThan
        IN  \A unit \in {"d", "w"} :
              CountWithUnit(text, unit) =>
                /\ parsed.ok /\ parsed.wraps = 0
                /\ Int64Hours(parsed) >= 0
                /\ \A t \in DurationTexts :
                     (CountWithUnit(t, unit) /\ CountOf(t) <= CountOf(text))
                        => Int64Hours(parseDuration(t)) <= Int64Hours(parsed)

\* 106752 days have been parsed: 2562048 hours, one more than int64 nanoseconds
\* hold, and the result is negative.
C39_Witness ==
    /\ pc = "parsed"
    /\ flags.olderThan = <<"1", "0", "6", "7", "5", "2", "d">>
    /\ parsed.ok /\ parsed.wraps = 1
    /\ Int64Hours(parsed) < 0

====
